---- MODULE Spec2Model ----
(***************************************************************************)
(* Verification model of rate_limit_optimizer's fault tolerance layer:     *)
(* the three-state CircuitBreaker shared by concurrent callers, and the    *)
(* ExponentialBackoffRetry / LinearBackoffRetry loops                      *)
(* (src/rate_limit_optimizer/error_handling.py).                           *)
(***************************************************************************)
EXTENDS Integers, Sequences, FiniteSets, TLC

\* ------------------------------------------------------------------ bounds
\* Largest failure_threshold a breaker is constructed with (0 is allowed).
MaxFailureThreshold == 3
\* Largest recovery_timeout, in clock ticks.
MaxRecoveryTimeout == 2
\* Largest success_threshold.
MaxSuccessThreshold == 2
\* Largest half_open_max_calls.
MaxHalfOpenCalls == 2
\* Number of coroutines that may be suspended inside CircuitBreaker.call.
MaxInFlight == 3
\* Last instant of the clock.
MaxTime == 4
\* Largest RetryPolicy.max_retries (0 is allowed).
MaxRetries == 3
\* Largest number of headers in a response given to the HeaderAnalyzer.
MaxHeaders == 3
\* Largest number of EndpointRotator.get_next_endpoint calls followed.
MaxCalls == 4
\* Largest rotation_interval_requests of a SequentialRotationStrategy.
MaxInterval == 2
\* Largest RateLimitTier.max_rate of a tier under test.
MaxRate == 3
\* Largest RateLimit.limit among the limits the detector merges.
MaxLimit == 6
\* Largest number of limits the detector merges.
MaxLimits == 2
\* random.uniform(0, s) is drawn from the points k * s / RandGrid, k in 0..RandGrid.
RandGrid == 10
\* Longest list of tiers handed to the detector.
MaxTiers == 3
\* Largest max_concurrent of test_tiers_parallel.
MaxConcurrent == 2

\* Python's None for an Optional field; instants and counts are >= 0.
None == -1

CLOSED == "closed"
OPEN == "open"
HALF_OPEN == "half_open"
CircuitBreakerState == {CLOSED, OPEN, HALF_OPEN}

VARIABLES
    cb,         \* the CircuitBreaker object: its configuration and its fields
    now,        \* datetime.now(), in ticks
    in_flight,  \* calls suspended in `await func()`, by the state that admitted them
    h,          \* history of the run (observation only, never read by the breaker)
    policy,     \* the RetryPolicy and the retry class of one execute_with_retry
    rs,         \* execute_with_retry: its position, locals and returned RetryResult
    hr,         \* history of that execution (observation only)
    ha,         \* one HeaderAnalyzer.extract_rate_limits call: headers and result
    rotator,        \* the EndpointRotator: endpoints, health, strategy object
    hrot,       \* history of the rotator's calls (observation only)
    tt,         \* one TierTester.test_tier execution
    htt,        \* history of that execution (observation only)
    det,        \* MultiTierDetector: the merged limits and most_restrictive
    da,         \* one MultiTierDetector.detect_all_rate_limits call
    par         \* one MultiTierDetector.test_tiers_parallel call: tasks and semaphore

breaker_vars == <<cb, now, in_flight, h>>
retry_vars == <<policy, rs, hr>>
header_vars == <<ha>>
rotator_vars == <<rotator, hrot>>
tester_vars == <<tt, htt>>
detector_vars == <<det>>
detect_vars == <<da>>
parallel_vars == <<par>>
vars == <<cb, now, in_flight, h, policy, rs, hr, ha, rotator, hrot, tt, htt, det, da, par>>

\* What the actions of one component leave alone: the other components.
outside_breaker == <<retry_vars, header_vars, rotator_vars, tester_vars, detector_vars, detect_vars, parallel_vars>>
outside_retry == <<breaker_vars, header_vars, rotator_vars, tester_vars, detector_vars, detect_vars, parallel_vars>>
outside_headers == <<breaker_vars, retry_vars, rotator_vars, tester_vars, detector_vars, detect_vars, parallel_vars>>
outside_rotator == <<breaker_vars, retry_vars, header_vars, tester_vars, detector_vars, detect_vars, parallel_vars>>
outside_tester == <<breaker_vars, retry_vars, header_vars, rotator_vars, detector_vars, detect_vars, parallel_vars>>
outside_detector == <<breaker_vars, retry_vars, header_vars, rotator_vars, tester_vars, detect_vars, parallel_vars>>
outside_detect == <<breaker_vars, retry_vars, header_vars, rotator_vars, tester_vars, detector_vars, parallel_vars>>
outside_parallel == <<breaker_vars, retry_vars, header_vars, rotator_vars, tester_vars, detector_vars, detect_vars>>

\* ------------------------------------------------- CircuitBreaker methods
\* Each method is a function from the object (and the clock) to the object
\* after the method has run.

CircuitBreaker(failure_threshold, recovery_timeout, success_threshold, half_open_max_calls) ==
    [failure_threshold |-> failure_threshold,
     recovery_timeout |-> recovery_timeout,
     success_threshold |-> success_threshold,
     half_open_max_calls |-> half_open_max_calls,
     state |-> CLOSED,
     failure_count |-> 0,
     success_count |-> 0,
     last_failure_time |-> None,
     half_open_calls |-> 0]

\* Mutant: the comparison with recovery_timeout is turned around.
should_attempt_reset_inverted(self, t) ==
    IF self.last_failure_time = None
    THEN TRUE
    ELSE t - self.last_failure_time <= self.recovery_timeout

should_attempt_reset(self, t) ==
    IF self.last_failure_time = None
    THEN TRUE
    ELSE t - self.last_failure_time >= self.recovery_timeout

move_to_half_open(self) ==
    [self EXCEPT !.state = HALF_OPEN, !.half_open_calls = 0]

\* Mutant: closing forgets to reset failure_count.
move_to_closed_keeps_failures(self) ==
    [self EXCEPT !.state = CLOSED, !.success_count = 0]

move_to_closed(self) ==
    [self EXCEPT !.state = CLOSED, !.failure_count = 0, !.success_count = 0]

\* Mutant: opening forgets to reset success_count.
move_to_open_keeps_successes(self) ==
    [self EXCEPT !.state = OPEN]

move_to_open(self) ==
    [self EXCEPT !.state = OPEN, !.success_count = 0]

on_success(self) ==
    IF self.state = HALF_OPEN
    THEN LET s1 == [self EXCEPT !.success_count = @ + 1]
         IN  IF s1.success_count >= s1.success_threshold
             THEN move_to_closed(s1)
             ELSE s1
    ELSE [self EXCEPT !.failure_count = 0]

\* Mutant: the breaker opens only when failure_count exceeds the threshold.
on_failure_strict(self, t) ==
    LET s1 == [self EXCEPT !.failure_count = @ + 1, !.last_failure_time = t]
    IN  IF s1.state = HALF_OPEN
        THEN move_to_open(s1)
        ELSE IF s1.failure_count > s1.failure_threshold
             THEN move_to_open(s1)
             ELSE s1

\* Mutant: a failure in CLOSED below the threshold is not counted.
on_failure_uncounted(self, t) ==
    LET s1 == [self EXCEPT !.failure_count = @ + 1, !.last_failure_time = t]
    IN  IF s1.state = HALF_OPEN
        THEN move_to_open(s1)
        ELSE IF s1.failure_count >= s1.failure_threshold
             THEN move_to_open(s1)
             ELSE self

on_failure(self, t) ==
    LET s1 == [self EXCEPT !.failure_count = @ + 1, !.last_failure_time = t]
    IN  IF s1.state = HALF_OPEN
        THEN move_to_open(s1)
        ELSE IF s1.failure_count >= s1.failure_threshold
             THEN move_to_open(s1)
             ELSE s1

\* CircuitBreaker.call up to `await func()`: the object after the entry checks
\* and what happens to the call ("invoke" the wrapped function, or raise).
call_entry(self, t) ==
    IF self.state = OPEN /\ ~should_attempt_reset(self, t)
    THEN [breaker |-> self, outcome |-> "breaker_open"]
    ELSE LET s1 == IF self.state = OPEN THEN move_to_half_open(self) ELSE self
         IN  IF s1.state = HALF_OPEN
             THEN IF s1.half_open_calls >= s1.half_open_max_calls
                  THEN [breaker |-> s1, outcome |-> "half_open_max_calls"]
                  ELSE [breaker |-> [s1 EXCEPT !.half_open_calls = @ + 1],
                        outcome |-> "invoke"]
             ELSE [breaker |-> s1, outcome |-> "invoke"]

\* ------------------------------------------------------------- history
InFlightTotal == in_flight[CLOSED] + in_flight[HALF_OPEN]

\* only_failures = k >= 0: exactly k calls have reached the wrapped function so
\* far, one after the other, and each of them failed; None otherwise.
FailureRunCap == MaxFailureThreshold + 1

InitHistory ==
    [last |-> [op |-> "none", from |-> CLOSED, fresh |-> FALSE],
     streak |-> 0,          \* successes completed in HALF_OPEN since it was last entered
     rejected |-> FALSE,    \* some call has been rejected by the breaker
     fresh |-> FALSE,       \* the breaker has closed and no call has failed since
     opened_at |-> None,    \* instant of the last entry to OPEN
     only_failures |-> 0]

\* ------------------------------------------------------------- actions
Init ==
    /\ cb \in {CircuitBreaker(ft, rt, st, hm) :
                  ft \in 0..MaxFailureThreshold,
                  rt \in 1..MaxRecoveryTimeout,
                  st \in 1..MaxSuccessThreshold,
                  hm \in 1..MaxHalfOpenCalls}
    /\ now = 0
    /\ in_flight = [s \in {CLOSED, HALF_OPEN} |-> 0]
    /\ h = InitHistory
    /\ policy = None
    /\ rs = None
    /\ hr = None
    /\ ha = None
    /\ rotator = None
    /\ hrot = None
    /\ tt = None
    /\ htt = None
    /\ da = None
    /\ par = None
    /\ det = None

\* A caller enters CircuitBreaker.call: lines 90-99, up to the await.
Call ==
    /\ InFlightTotal < MaxInFlight
    /\ LET r == call_entry(cb, now)
           admitted == r.outcome = "invoke"
       IN  /\ cb' = r.breaker
           /\ in_flight' = IF admitted
                           THEN [in_flight EXCEPT ![r.breaker.state] = @ + 1]
                           ELSE in_flight
           /\ h' = [h EXCEPT
                      !.last = [op |-> r.outcome, from |-> cb.state, fresh |-> FALSE],
                      !.streak = IF cb.state = OPEN /\ r.breaker.state = HALF_OPEN
                                 THEN 0 ELSE @,
                      !.rejected = @ \/ ~admitted,
                      !.only_failures = IF admitted /\ InFlightTotal > 0 THEN None
                                        ELSE @]
    /\ UNCHANGED <<now, outside_breaker>>

\* The wrapped function of a suspended call returns: _on_success (lines 102-104).
FuncReturns(k) ==
    /\ in_flight[k] > 0
    /\ in_flight' = [in_flight EXCEPT ![k] = @ - 1]
    /\ cb' = on_success(cb)
    /\ h' = [h EXCEPT
               !.last = [op |-> "return", from |-> cb.state, fresh |-> FALSE],
               !.streak = IF cb.state = HALF_OPEN THEN @ + 1 ELSE @,
               !.fresh = IF cb.state # CLOSED /\ cb'.state = CLOSED THEN TRUE ELSE @,
               !.only_failures = None]
    /\ UNCHANGED <<now, outside_breaker>>

\* The wrapped function of a suspended call raises: _on_failure (lines 106-108).
FuncRaises(k) ==
    /\ in_flight[k] > 0
    /\ in_flight' = [in_flight EXCEPT ![k] = @ - 1]
    /\ cb' = on_failure(cb, now)
    /\ h' = [h EXCEPT
               !.last = [op |-> "raise", from |-> cb.state, fresh |-> h.fresh],
               !.fresh = FALSE,
               !.opened_at = IF cb.state # OPEN /\ cb'.state = OPEN THEN now ELSE @,
               !.only_failures = IF @ = None \/ @ >= FailureRunCap
                                 THEN None ELSE @ + 1]
    /\ UNCHANGED <<now, outside_breaker>>

\* The clock advances.
Tick ==
    /\ now < MaxTime
    /\ now' = now + 1
    /\ UNCHANGED <<cb, in_flight, h, outside_breaker>>

Next ==
    \/ Call
    \/ \E k \in {CLOSED, HALF_OPEN} : FuncReturns(k)
    \/ \E k \in {CLOSED, HALF_OPEN} : FuncRaises(k)
    \/ Tick

Spec == Init /\ [][Next]_vars

\* ------------------------------------------------ retry: policy and errors
\* Durations are in milliseconds.
RetryPolicy(max_retries, base_delay, backoff_multiplier, max_delay, retry_on_codes, retry_on_timeout, jitter) ==
    [max_retries |-> max_retries,
     base_delay |-> base_delay,
     backoff_multiplier |-> backoff_multiplier,
     max_delay |-> max_delay,
     retry_on_codes |-> retry_on_codes,
     retry_on_timeout |-> retry_on_timeout,
     jitter |-> jitter]

\* What the wrapped function may raise: the exception's class, its `status`
\* attribute (None when the class has none) and its retry_after.
Raised(type, status, retry_after) ==
    [type |-> type, status |-> status, retry_after |-> retry_after]

Exceptions ==
    {Raised("RateLimitExceeded", None, ra) : ra \in {None, 0, 200, 5000}}
    \cup {Raised(ty, None, None) :
            ty \in {"ServerError", "NetworkError", "TimeoutError",
                    "AuthenticationError", "Exception"}}
    \cup {Raised("ClientResponseError", st, None) : st \in {401, 404, 503}}

\* random.random(), in thousandths.
RandomSamples == {0, 500, 999}

RECURSIVE Pow(_, _)
Pow(b, n) == IF n = 0 THEN 1 ELSE b * Pow(b, n - 1)

Min(a, b) == IF a <= b THEN a ELSE b

\* --------------------------------------------- retry: the handlers' methods
\* Mutant: server errors are not retried.
should_retry_no_server(pol, exception, attempt) ==
    IF attempt > pol.max_retries THEN FALSE
    ELSE IF exception.type = "RateLimitExceeded" THEN TRUE
    ELSE IF exception.type = "NetworkError" THEN TRUE
    ELSE IF exception.type = "TimeoutError" THEN pol.retry_on_timeout
    ELSE IF exception.type \in {"AuthenticationError", "ServerError"} THEN FALSE
    ELSE IF exception.status # None THEN exception.status \in pol.retry_on_codes
    ELSE FALSE

\* ExponentialBackoffRetry._should_retry
should_retry(pol, exception, attempt) ==
    IF attempt > pol.max_retries THEN FALSE
    ELSE IF exception.type = "RateLimitExceeded" THEN TRUE
    ELSE IF exception.type \in {"ServerError", "NetworkError"} THEN TRUE
    ELSE IF exception.type = "TimeoutError" THEN pol.retry_on_timeout
    ELSE IF exception.type = "AuthenticationError" THEN FALSE
    ELSE IF exception.status # None THEN exception.status \in pol.retry_on_codes
    ELSE FALSE

\* ExponentialBackoffRetry._calculate_delay; rnd is the value random.random()
\* returns, in thousandths.
calculate_delay_from_zero(pol, attempt, exception, rnd) ==
    IF exception.type = "RateLimitExceeded"
       /\ exception.retry_after # None /\ exception.retry_after # 0
    THEN Min(exception.retry_after, pol.max_delay)
    ELSE LET delay == Min(pol.base_delay * Pow(pol.backoff_multiplier, attempt),
                          pol.max_delay)
         IN  IF pol.jitter THEN delay + (delay * rnd) \div 10000 ELSE delay

calculate_delay(pol, attempt, exception, rnd) ==
    IF exception.type = "RateLimitExceeded"
       /\ exception.retry_after # None /\ exception.retry_after # 0
    THEN Min(exception.retry_after, pol.max_delay)
    ELSE LET delay == Min(pol.base_delay * Pow(pol.backoff_multiplier, attempt - 1),
                          pol.max_delay)
         IN  IF pol.jitter THEN delay + (delay * rnd) \div 10000 ELSE delay

\* The delay LinearBackoffRetry.execute_with_retry computes (lines 296-302).
linear_delay(pol, attempts, rnd) ==
    LET delay == Min(pol.base_delay * attempts, pol.max_delay)
    IN  IF pol.jitter THEN delay + (delay * rnd) \div 10000 ELSE delay

\* Mutant: the loop runs while attempts < max_retries.
loop_continues_strict(pol, attempts) == attempts < pol.max_retries

\* The `while attempts <= self.policy.max_retries` test of both handlers.
loop_continues(pol, attempts) == attempts <= pol.max_retries

\* The `break` test after a failed attempt: exponential (line 199) and linear
\* (line 293).
breaks(handler, pol, exception, attempts) ==
    IF handler = "ExponentialBackoffRetry"
    THEN ~should_retry(pol, exception, attempts) \/ attempts > pol.max_retries
    ELSE attempts > pol.max_retries

\* The delay slept before the next attempt (lines 203-209 and 296-306).
next_delay(handler, pol, attempts, exception, rnd) ==
    IF handler = "ExponentialBackoffRetry"
    THEN calculate_delay(pol, attempts, exception, rnd)
    ELSE linear_delay(pol, attempts, rnd)

RetryResult(success, attempts_made, final_response, final_error) ==
    [success |-> success, attempts_made |-> attempts_made,
     final_response |-> final_response, final_error |-> final_error]

\* ------------------------------------------------------- retry: history
\* The errors section 4.2 lists as retryable under a policy, whatever the
\* attempt number: the hypothesis of the claims about retried failures.
Retryable(pol, e) ==
    \/ e.type \in {"RateLimitExceeded", "ServerError", "NetworkError"}
    \/ e.type = "TimeoutError" /\ pol.retry_on_timeout
    \/ e.type = "ClientResponseError" /\ e.status \in pol.retry_on_codes

\* The failure carries a Retry-After the handlers honour (lines 246 and 297).
HasRetryAfter(e) ==
    e.type = "RateLimitExceeded" /\ e.retry_after # None /\ e.retry_after # 0

\* ------------------------------------------------------- retry: actions
Handlers == {"ExponentialBackoffRetry", "LinearBackoffRetry"}

InitRetry ==
    /\ policy \in {RetryPolicy(mr, 1000, 2, md, codes, rot, jit) :
                     mr \in 0..MaxRetries, md \in {3000, 10000},
                     codes \in {{429, 502, 503, 504}, {}, {401, 404}},
                     rot \in BOOLEAN, jit \in BOOLEAN}
    /\ rs \in {[handler |-> hd, pc |-> "start", attempts |-> 0,
                last_exception |-> None, delay |-> None, result |-> None] :
                 hd \in Handlers}
    /\ hr = [invocations |-> 0, returned |-> 0, last_raised |-> None,
             all_retryable |-> TRUE, delays |-> <<>>, retry_after |-> FALSE]
    /\ cb = None
    /\ now = 0
    /\ in_flight = None
    /\ h = None
    /\ ha = None
    /\ rotator = None
    /\ hrot = None
    /\ tt = None
    /\ htt = None
    /\ da = None
    /\ par = None
    /\ det = None

\* The result returned when the loop ends without a success (lines 211-218
\* and 308-314).
Exhausted(st) ==
    [st EXCEPT !.pc = "done", !.delay = None,
               !.result = RetryResult(FALSE, st.attempts, None, st.last_exception)]

\* The `while` test, then the next iteration or the failure result.
LoopHead(st) ==
    IF loop_continues(policy, st.attempts)
    THEN [st EXCEPT !.pc = "loop", !.delay = None]
    ELSE Exhausted(st)

\* execute_with_retry is called: attempts = 0 and the first `while` test.
Start ==
    /\ rs.pc = "start"
    /\ rs' = LoopHead(rs)
    /\ UNCHANGED <<policy, hr, outside_retry>>

\* One iteration in which func() returns: the success result is returned.
AttemptReturns ==
    /\ rs.pc = "loop"
    /\ LET attempts == rs.attempts + 1
       IN  rs' = [rs EXCEPT !.pc = "done", !.attempts = attempts,
                            !.result = RetryResult(TRUE, attempts, "response", None)]
    /\ hr' = [hr EXCEPT !.invocations = @ + 1, !.returned = @ + 1]
    /\ UNCHANGED <<policy, outside_retry>>

\* One iteration in which func() raises e: break, or compute the delay and
\* sleep; rnd is what random.random() returns if jitter asks for it.
AttemptRaises(e, rnd) ==
    /\ rs.pc = "loop"
    /\ LET attempts == rs.attempts + 1
           st == [rs EXCEPT !.attempts = attempts, !.last_exception = e]
       IN  rs' = IF breaks(rs.handler, policy, e, attempts)
                 THEN Exhausted(st)
                 ELSE [st EXCEPT !.pc = "sleep",
                                 !.delay = next_delay(rs.handler, policy, attempts, e, rnd)]
    /\ hr' = [hr EXCEPT !.invocations = @ + 1,
                        !.last_raised = e,
                        !.all_retryable = @ /\ Retryable(policy, e),
                        !.delays = IF rs'.pc = "sleep" THEN Append(@, rs'.delay) ELSE @,
                        !.retry_after = @ \/ (rs'.pc = "sleep" /\ HasRetryAfter(e))]
    /\ UNCHANGED <<policy, outside_retry>>

\* asyncio.sleep(delay) returns: back to the `while` test.
Wake ==
    /\ rs.pc = "sleep"
    /\ rs' = LoopHead(rs)
    /\ UNCHANGED <<policy, hr, outside_retry>>

NextRetry ==
    \/ Start
    \/ AttemptReturns
    \/ \E e \in Exceptions, rnd \in RandomSamples : AttemptRaises(e, rnd)
    \/ Wake

SpecRetry == InitRetry /\ [][NextRetry]_vars

\* ------------------------------------------------ HeaderAnalyzer: strings
\* Header names and values are Python strings: sequences of characters.
X_RateLimit_Limit == <<"X", "-", "R", "a", "t", "e", "L", "i", "m", "i", "t", "-", "L", "i", "m", "i", "t">>
X_Rate_Limit_Limit == <<"X", "-", "R", "a", "t", "e", "-", "L", "i", "m", "i", "t", "-", "L", "i", "m", "i", "t">>
X_RateLimit_Remaining == <<"X", "-", "R", "a", "t", "e", "L", "i", "m", "i", "t", "-", "R", "e", "m", "a", "i", "n", "i", "n", "g">>
X_Rate_Limit_Remaining == <<"X", "-", "R", "a", "t", "e", "-", "L", "i", "m", "i", "t", "-", "R", "e", "m", "a", "i", "n", "i", "n", "g">>
X_RateLimit_Reset == <<"X", "-", "R", "a", "t", "e", "L", "i", "m", "i", "t", "-", "R", "e", "s", "e", "t">>
X_Rate_Limit_Reset == <<"X", "-", "R", "a", "t", "e", "-", "L", "i", "m", "i", "t", "-", "R", "e", "s", "e", "t">>
X_RateLimit_Window == <<"X", "-", "R", "a", "t", "e", "L", "i", "m", "i", "t", "-", "W", "i", "n", "d", "o", "w">>
X_Rate_Limit_Window == <<"X", "-", "R", "a", "t", "e", "-", "L", "i", "m", "i", "t", "-", "W", "i", "n", "d", "o", "w">>
X_Rate_Limit_Limit_Minute == <<"X", "-", "R", "a", "t", "e", "-", "L", "i", "m", "i", "t", "-", "L", "i", "m", "i", "t", "-", "M", "i", "n", "u", "t", "e">>
X_Rate_Limit_Remaining_Minute == <<"X", "-", "R", "a", "t", "e", "-", "L", "i", "m", "i", "t", "-", "R", "e", "m", "a", "i", "n", "i", "n", "g", "-", "M", "i", "n", "u", "t", "e">>
X_Rate_Limit_Limit_15min == <<"X", "-", "R", "a", "t", "e", "-", "L", "i", "m", "i", "t", "-", "L", "i", "m", "i", "t", "-", "1", "5", "m", "i", "n">>

\* The header values offered to the analyzer.
HeaderValues == {<<"a", "b", "c">>, <<"-", "1">>, <<"0">>, <<"5">>, <<"6">>}

\* The header names offered to the analyzer. The response headers are a dict:
\* (name, value) pairs in insertion order with distinct names.
HeaderNames ==
    {X_RateLimit_Limit, X_RateLimit_Remaining, X_Rate_Limit_Limit_Minute,
     X_Rate_Limit_Remaining_Minute, X_Rate_Limit_Limit_15min}

HasKey(d, nm) == \E i \in 1..Len(d) : d[i][1] = nm

ToLower ==
    "A" :> "a" @@ "B" :> "b" @@ "C" :> "c" @@ "D" :> "d" @@ "E" :> "e" @@ "F" :> "f" @@ "G" :> "g"
    @@ "H" :> "h" @@ "I" :> "i" @@ "J" :> "j" @@ "K" :> "k" @@ "L" :> "l" @@ "M" :> "m" @@ "N" :> "n"
    @@ "O" :> "o" @@ "P" :> "p" @@ "Q" :> "q" @@ "R" :> "r" @@ "S" :> "s" @@ "T" :> "t" @@ "U" :> "u"
    @@ "V" :> "v" @@ "W" :> "w" @@ "X" :> "x" @@ "Y" :> "y" @@ "Z" :> "z"

\* str.lower()
lower(str) ==
    [i \in 1..Len(str) |-> IF str[i] \in DOMAIN ToLower THEN ToLower[str[i]] ELSE str[i]]

\* Python's `pattern in text` for strings.
contains(pattern, text) ==
    \E i \in 0..(Len(text) - Len(pattern)) :
        \A j \in 1..Len(pattern) : text[i + j] = pattern[j]

DigitValue == "0" :> 0 @@ "1" :> 1 @@ "2" :> 2 @@ "3" :> 3 @@ "4" :> 4 @@ "5" :> 5 @@ "6" :> 6 @@ "7" :> 7 @@ "8" :> 8 @@ "9" :> 9

RECURSIVE digits_value(_)
digits_value(ds) ==
    IF Len(ds) = 0 THEN 0
    ELSE 10 * digits_value(SubSeq(ds, 1, Len(ds) - 1)) + DigitValue[ds[Len(ds)]]

\* int(str): [ok |-> FALSE] stands for ValueError.
int(str) ==
    LET neg == Len(str) > 0 /\ str[1] = "-"
        ds == IF neg THEN Tail(str) ELSE str
    IN  IF Len(ds) > 0 /\ \A i \in 1..Len(ds) : ds[i] \in DOMAIN DigitValue
        THEN [ok |-> TRUE, value |-> IF neg THEN 0 - digits_value(ds) ELSE digits_value(ds)]
        ELSE [ok |-> FALSE, value |-> 0]

\* dict.get(name): the value, or NoValue for None.
NoValue == <<"None">>
get(headers, nm) ==
    IF HasKey(headers, nm)
    THEN headers[CHOOSE i \in 1..Len(headers) : headers[i][1] = nm][2]
    ELSE NoValue

\* Python's `a or b` on Optional[str]: None and "" are falsy.
truthy(v) == v # NoValue /\ Len(v) > 0
or_else(a, b) == IF truthy(a) THEN a ELSE b

\* ------------------------------------------------ HeaderAnalyzer: models
\* RateLimit(...): the pydantic model's validation. [ok |-> FALSE] stands for
\* ValidationError (a ValueError): limit gt 0, remaining ge 0, window_seconds
\* gt 0; the `remaining` validator lowers remaining to limit.
RateLimit(limit, remaining, reset_time, window_seconds, detected_via) ==
    IF limit > 0 /\ remaining >= 0 /\ window_seconds > 0
    THEN [ok |-> TRUE,
          value |-> [limit |-> limit,
                     remaining |-> IF remaining > limit THEN limit ELSE remaining,
                     reset_time |-> reset_time, window_seconds |-> window_seconds,
                     detected_via |-> detected_via]]
    ELSE [ok |-> FALSE, value |-> None]

\* ------------------------------------------------ HeaderAnalyzer: methods
\* reset_time of the basic limit: the header as a timestamp when it parses.
basic_reset_time(reset_str) ==
    IF truthy(reset_str) /\ int(reset_str).ok THEN int(reset_str).value ELSE None

basic_window_seconds(window_str) ==
    IF truthy(window_str) /\ int(window_str).ok THEN int(window_str).value ELSE 60

\* _extract_basic_limit: <<>> for None, else <<the RateLimit>>.
extract_basic_limit(headers) ==
    LET limit_str == or_else(get(headers, X_RateLimit_Limit), get(headers, X_Rate_Limit_Limit))
        remaining_str == or_else(get(headers, X_RateLimit_Remaining),
                                 get(headers, X_Rate_Limit_Remaining))
        reset_str == or_else(get(headers, X_RateLimit_Reset), get(headers, X_Rate_Limit_Reset))
        window_str == or_else(get(headers, X_RateLimit_Window), get(headers, X_Rate_Limit_Window))
    IN  IF ~truthy(limit_str) THEN <<>>
        ELSE IF ~int(limit_str).ok THEN <<>>
        ELSE IF truthy(remaining_str) /\ ~int(remaining_str).ok THEN <<>>
        ELSE LET limit == int(limit_str).value
                 remaining == IF truthy(remaining_str) THEN int(remaining_str).value
                              ELSE limit
                 made == RateLimit(limit, remaining, basic_reset_time(reset_str),
                                   basic_window_seconds(window_str), "headers")
             IN  IF made.ok THEN <<made.value>> ELSE <<>>

tier_patterns ==
    <<[name |-> "10s", window_seconds |-> 10,
        patterns |-> <<<<"1", "0", "s">>, <<"1", "0", "_", "s", "e", "c", "o", "n", "d", "s">>, <<"1", "0", "-", "s", "e", "c", "o", "n", "d", "s">>>>],
       [name |-> "minute", window_seconds |-> 60,
        patterns |-> <<<<"m", "i", "n", "u", "t", "e">>, <<"m", "i", "n">>, <<"6", "0">>>>],
       [name |-> "15min", window_seconds |-> 900,
        patterns |-> <<<<"1", "5", "m", "i", "n">>, <<"1", "5", "_", "m", "i", "n", "u", "t", "e", "s">>, <<"1", "5", "-", "m", "i", "n", "u", "t", "e", "s">>>>],
       [name |-> "hour", window_seconds |-> 3600,
        patterns |-> <<<<"h", "o", "u", "r">>, <<"h", "r">>, <<"3", "6", "0", "0">>>>],
       [name |-> "day", window_seconds |-> 86400,
        patterns |-> <<<<"d", "a", "y">>, <<"d", "a", "i", "l", "y">>, <<"8", "6", "4", "0", "0">>>>]>>

word_limit == <<"l", "i", "m", "i", "t">>
word_remaining == <<"r", "e", "m", "a", "i", "n", "i", "n", "g">>
word_reset == <<"r", "e", "s", "e", "t">>

\* The body of the loop over headers.items() in _extract_tier_limit: the three
\* locals after one header. Every pattern found in the name runs the same
\* assignment, so the inner loop acts once when some pattern is found.
tier_scan_header(acc, header_name, header_value, patterns) ==
    LET header_lower == lower(header_name)
        parsed == int(header_value)
    IN  IF ~\E k \in 1..Len(patterns) : contains(lower(patterns[k]), header_lower)
        THEN acc
        ELSE IF contains(word_limit, header_lower) /\ ~contains(word_remaining, header_lower)
        THEN IF parsed.ok THEN [acc EXCEPT !.limit_value = <<parsed.value>>] ELSE acc
        ELSE IF contains(word_remaining, header_lower)
        THEN IF parsed.ok THEN [acc EXCEPT !.remaining_value = <<parsed.value>>] ELSE acc
        ELSE IF contains(word_reset, header_lower)
        THEN IF parsed.ok THEN [acc EXCEPT !.reset_time = parsed.value] ELSE acc
        ELSE acc

RECURSIVE tier_scan(_, _, _)
tier_scan(headers, n, patterns) ==
    IF n = 0
    THEN [limit_value |-> <<>>, remaining_value |-> <<>>, reset_time |-> None]
    ELSE tier_scan_header(tier_scan(headers, n - 1, patterns),
                          headers[n][1], headers[n][2], patterns)

\* _extract_tier_limit: [raised, limits], limits being <<>> for None; the
\* RateLimit is constructed outside any try, so its ValidationError propagates.
extract_tier_limit(headers, patterns, window_seconds) ==
    LET acc == tier_scan(headers, Len(headers), patterns)
    IN  IF acc.limit_value = <<>> THEN [raised |-> FALSE, limits |-> <<>>]
        ELSE LET limit_value == acc.limit_value[1]
                 made == RateLimit(limit_value,
                                   IF acc.remaining_value # <<>>
                                   THEN acc.remaining_value[1] ELSE limit_value,
                                   acc.reset_time, window_seconds, "headers")
             IN  IF made.ok THEN [raised |-> FALSE, limits |-> <<made.value>>]
                 ELSE [raised |-> TRUE, limits |-> <<>>]

\* _extract_multi_tier_limits over the first n tiers of tier_patterns.
RECURSIVE extract_multi_tier_limits(_, _)
extract_multi_tier_limits(headers, n) ==
    IF n = 0 THEN [raised |-> FALSE, limits |-> <<>>]
    ELSE LET before == extract_multi_tier_limits(headers, n - 1)
             this == extract_tier_limit(headers, tier_patterns[n].patterns,
                                        tier_patterns[n].window_seconds)
         IN  IF before.raised \/ this.raised THEN [raised |-> TRUE, limits |-> <<>>]
             ELSE [raised |-> FALSE, limits |-> before.limits \o this.limits]

\* Mutant: duplicates of a window are not dropped.
filter_valid_limits_keeps_duplicates(limits, n) ==
    SubSeq(limits, 1, n)

\* _filter_valid_limits over the first n limits.
RECURSIVE filter_valid_limits(_, _)
filter_valid_limits(limits, n) ==
    IF n = 0 THEN <<>>
    ELSE LET valid_limits == filter_valid_limits(limits, n - 1)
             limit == limits[n]
             clamped == IF limit.remaining < 0 THEN [limit EXCEPT !.remaining = 0]
                        ELSE IF limit.remaining > limit.limit
                             THEN [limit EXCEPT !.remaining = limit.limit]
                             ELSE limit
         IN  IF limit.limit <= 0 THEN valid_limits
             ELSE IF \E i \in 1..Len(valid_limits) :
                        valid_limits[i].window_seconds = limit.window_seconds
                  THEN valid_limits
                  ELSE Append(valid_limits, clamped)

\* extract_rate_limits: [raised, limits].
extract_rate_limits(headers) ==
    LET basic_limit == extract_basic_limit(headers)
        multi_limits == extract_multi_tier_limits(headers, Len(tier_patterns))
    IN  IF multi_limits.raised THEN [raised |-> TRUE, limits |-> <<>>]
        ELSE LET limits == basic_limit \o multi_limits.limits
             IN  [raised |-> FALSE, limits |-> filter_valid_limits(limits, Len(limits))]

\* ------------------------------------------------ HeaderAnalyzer: actions
InitHeaders ==
    /\ ha = [pc |-> "input", headers |-> <<>>, result |-> None]
    /\ cb = None
    /\ now = 0
    /\ in_flight = None
    /\ h = None
    /\ policy = None
    /\ rs = None
    /\ hr = None
    /\ rotator = None
    /\ hrot = None
    /\ tt = None
    /\ htt = None
    /\ da = None
    /\ par = None
    /\ det = None

\* The response carries one more header: headers[nm] = v.
AddHeader(nm, v) ==
    /\ ha.pc = "input"
    /\ Len(ha.headers) < MaxHeaders
    /\ ~HasKey(ha.headers, nm)
    /\ ha' = [ha EXCEPT !.headers = Append(@, <<nm, v>>)]
    /\ UNCHANGED outside_headers

\* analyzer.extract_rate_limits(headers) is called.
ExtractRateLimits ==
    /\ ha.pc = "input"
    /\ ha' = [ha EXCEPT !.pc = "done", !.result = extract_rate_limits(ha.headers)]
    /\ UNCHANGED outside_headers

NextHeaders ==
    \/ \E nm \in HeaderNames, v \in HeaderValues : AddHeader(nm, v)
    \/ ExtractRateLimits

SpecHeaders == InitHeaders /\ [][NextHeaders]_vars

\* ------------------------------------------------ rotation strategies
\* A strategy's get_next_endpoint is the set of its possible outcomes
\* [strategy, result], one per draw of the random module; result is the
\* endpoint returned or IndexError.
IndexError == "IndexError"

\* Optional[str] None; falsy like the empty string.
NoEndpoint == ""

Outcome(self, result) == [strategy |-> self, result |-> result]

SeqToSet(seq) == {seq[i] : i \in 1..Len(seq)}

\* [ep for ep in endpoints if ep != excluded]
without(endpoints, excluded) ==
    LET keep(ep) == ep # excluded IN SelectSeq(endpoints, keep)

RandomRotationStrategy(avoid_consecutive_repeats) ==
    [type |-> "RandomRotationStrategy", request_count |-> 0,
     avoid_consecutive_repeats |-> avoid_consecutive_repeats, last_endpoint |-> NoEndpoint]

random_get_next_endpoint(self, endpoints) ==
    IF Len(endpoints) = 1 THEN {Outcome(self, endpoints[1])}
    ELSE LET available == IF self.avoid_consecutive_repeats /\ self.last_endpoint # NoEndpoint
                          THEN without(endpoints, self.last_endpoint)
                          ELSE endpoints
             candidates == IF Len(available) > 0 THEN available ELSE endpoints
         IN  {Outcome([self EXCEPT !.last_endpoint = endpoint], endpoint) :
                endpoint \in SeqToSet(candidates)}

SequentialRotationStrategy(rotation_interval_requests) ==
    [type |-> "SequentialRotationStrategy", request_count |-> 0,
     rotation_interval_requests |-> rotation_interval_requests, current_index |-> 0]

\* should_rotate: the counter grows, then is tested.
should_rotate(self) ==
    [strategy |-> [self EXCEPT !.request_count = @ + 1],
     rotate |-> (self.request_count + 1) % self.rotation_interval_requests = 0]

\* current_index is 0-based; endpoints[i] past the end of the list offered is
\* Python's IndexError.
sequential_get_next_endpoint(self, endpoints) ==
    LET counted == should_rotate(self)
        moved == IF counted.rotate
                 THEN [counted.strategy EXCEPT
                         !.current_index = (@ + 1) % Len(endpoints)]
                 ELSE counted.strategy
    IN  {Outcome(moved, IF moved.current_index < Len(endpoints)
                        THEN endpoints[moved.current_index + 1]
                        ELSE IndexError)}

\* EndpointConfig.weight by path, in tenths.
endpoint_configs == [p \in {"/v1/market/all", "/v1/ticker", "/v1/orderbook"} |->
                       CASE p = "/v1/market/all" -> 5
                         [] p = "/v1/ticker" -> 3
                         [] p = "/v1/orderbook" -> 2]

\* adapt_weights_based_on_performance keeps its default, False.
WeightedRotationStrategy ==
    [type |-> "WeightedRotationStrategy", request_count |-> 0]

\* _get_weights: the configured weight of each endpoint offered.
get_weights(endpoints) == [i \in 1..Len(endpoints) |-> endpoint_configs[endpoints[i]]]

RECURSIVE cumulative_sum(_, _)
cumulative_sum(weights, n) ==
    IF n = 0 THEN 0 ELSE cumulative_sum(weights, n - 1) + weights[n]

\* _weighted_choice for rand_value = k * cumulative_sum / RandGrid. Dividing
\* every weight by their total scales both sides of rand_value <= cum_weight
\* alike, so the comparison is made on the weights as configured.
weighted_choice(endpoints, weights, k) ==
    LET total == cumulative_sum(weights, Len(endpoints))
        hits == {i \in 1..Len(endpoints) :
                   k * total <= cumulative_sum(weights, i) * RandGrid}
    IN  IF hits = {} THEN endpoints[Len(endpoints)]
        ELSE endpoints[CHOOSE i \in hits : \A j \in hits : i <= j]

weighted_get_next_endpoint(self, endpoints) ==
    IF Len(endpoints) = 1 THEN {Outcome(self, endpoints[1])}
    ELSE {Outcome(self, weighted_choice(endpoints, get_weights(endpoints), k)) :
            k \in 0..RandGrid}

\* randomization_factor is in tenths.
PatternAvoidanceRotationStrategy(avoid_patterns, max_consecutive_same, pattern_detection_window, randomization_factor) ==
    [type |-> "PatternAvoidanceRotationStrategy", request_count |-> 0,
     avoid_patterns |-> avoid_patterns, max_consecutive_same |-> max_consecutive_same,
     pattern_detection_window |-> pattern_detection_window,
     randomization_factor |-> randomization_factor, history |-> <<>>]

filter_consecutive_repeats(self, endpoints) ==
    IF Len(self.history) < self.max_consecutive_same THEN endpoints
    ELSE LET recent_history == SubSeq(self.history,
                                      Len(self.history) - self.max_consecutive_same + 1,
                                      Len(self.history))
         IN  IF Cardinality(SeqToSet(recent_history)) = 1
             THEN without(endpoints, recent_history[1])
             ELSE endpoints

\* The first i with history[i:i+2] == history[i+2:i+4] excludes history[i].
filter_patterns(self, endpoints) ==
    IF Len(self.history) < 4 THEN endpoints
    ELSE LET repeats == {i \in 1..(Len(self.history) - 3) :
                           /\ self.history[i] = self.history[i + 2]
                           /\ self.history[i + 1] = self.history[i + 3]}
         IN  IF repeats = {} THEN endpoints
             ELSE without(endpoints,
                          self.history[CHOOSE i \in repeats : \A j \in repeats : i <= j])

\* deque(maxlen=pattern_detection_window).append
history_append(self, endpoint) ==
    LET appended == Append(self.history, endpoint)
    IN  IF Len(appended) > self.pattern_detection_window
        THEN SubSeq(appended, Len(appended) - self.pattern_detection_window + 1,
                    Len(appended))
        ELSE appended

\* random.random() lies in [0, 1): below a factor of 0 never, below a factor
\* of 1 always.
pattern_get_next_endpoint(self, endpoints) ==
    IF Len(endpoints) = 1 THEN {Outcome(self, endpoints[1])}
    ELSE LET no_repeats == filter_consecutive_repeats(self, endpoints)
             no_patterns == IF self.avoid_patterns /\ Len(self.history) >= 2
                            THEN filter_patterns(self, no_repeats)
                            ELSE no_repeats
             available_endpoints == IF Len(no_patterns) = 0 THEN endpoints
                                    ELSE no_patterns
             drawn == (IF self.randomization_factor > 0
                       THEN SeqToSet(endpoints) ELSE {})
                      \cup (IF self.randomization_factor < 10
                            THEN SeqToSet(available_endpoints) ELSE {})
         IN  {Outcome([self EXCEPT !.history = history_append(self, endpoint)], endpoint) :
                endpoint \in drawn}

\* self.strategy.get_next_endpoint(endpoints_to_use, ...)
strategy_get_next_endpoint(self, endpoints) ==
    CASE self.type = "RandomRotationStrategy" -> random_get_next_endpoint(self, endpoints)
      [] self.type = "SequentialRotationStrategy" -> sequential_get_next_endpoint(self, endpoints)
      [] self.type = "WeightedRotationStrategy" -> weighted_get_next_endpoint(self, endpoints)
      [] self.type = "PatternAvoidanceRotationStrategy" -> pattern_get_next_endpoint(self, endpoints)

Strategies ==
    {RandomRotationStrategy(a) : a \in BOOLEAN}
    \cup {SequentialRotationStrategy(n) : n \in 1..MaxInterval}
    \cup {WeightedRotationStrategy}
    \cup {PatternAvoidanceRotationStrategy(a, m, 5, f) :
            a \in BOOLEAN, m \in {1, 2}, f \in {0, 3}}

\* ------------------------------------------------ EndpointRotator
sample_endpoints == <<"/v1/market/all", "/v1/ticker", "/v1/orderbook">>

EndpointRotator(endpoints, strategy, handle_failures) ==
    [endpoints |-> endpoints, strategy |-> strategy, handle_failures |-> handle_failures,
     endpoint_health |-> [ep \in SeqToSet(endpoints) |-> TRUE]]

\* Mutant: the health of the endpoints is not looked at.
endpoints_to_use_unfiltered(self) ==
    self.endpoints

\* The list EndpointRotator.get_next_endpoint hands to the strategy.
endpoints_to_use(self) ==
    IF self.handle_failures
    THEN LET healthy(ep) == self.endpoint_health[ep]
             healthy_endpoints == SelectSeq(self.endpoints, healthy)
         IN  IF Len(healthy_endpoints) > 0 THEN healthy_endpoints ELSE self.endpoints
    ELSE self.endpoints

\* The configured endpoints marked healthy.
IsHealthy(self) == {ep \in SeqToSet(self.endpoints) : self.endpoint_health[ep]}

\* Outcomes of one request: HTTP statuses, and 0 for a transport exception.
RequestOutcomes == {200, 429, 500, 0}

\* endpoint_health[endpoint] after _make_request_impl.
health_after(self, endpoint, status) ==
    IF ~self.handle_failures THEN self.endpoint_health
    ELSE [self.endpoint_health EXCEPT ![endpoint] = (status # 0 /\ status < 500)]

InitRotator ==
    /\ rotator \in {EndpointRotator(sample_endpoints, sg, hf) :
                  sg \in Strategies, hf \in BOOLEAN}
    /\ hrot = [selections |-> <<>>, calls |-> 0, fixed_list |-> TRUE,
               offered_two |-> TRUE,
               last |-> [op |-> "init", result |-> NoEndpoint, any_healthy |-> TRUE,
                         any_unhealthy |-> FALSE, result_healthy |-> FALSE]]
    /\ cb = None
    /\ now = 0
    /\ in_flight = None
    /\ h = None
    /\ policy = None
    /\ rs = None
    /\ hr = None
    /\ ha = None
    /\ tt = None
    /\ htt = None
    /\ da = None
    /\ par = None
    /\ det = None

\* await rotator.get_next_endpoint()
GetNextEndpoint ==
    /\ hrot.calls < MaxCalls
    /\ LET offered == endpoints_to_use(rotator)
       IN  \E out \in strategy_get_next_endpoint(rotator.strategy, offered) :
             /\ rotator' = [rotator EXCEPT !.strategy = out.strategy]
             /\ hrot' = [selections |-> IF out.result = IndexError THEN hrot.selections
                                        ELSE Append(hrot.selections, out.result),
                         calls |-> hrot.calls + 1,
                         fixed_list |-> hrot.fixed_list /\ offered = rotator.endpoints,
                         offered_two |-> hrot.offered_two /\ Len(offered) >= 2,
                         last |-> [op |-> "get_next_endpoint", result |-> out.result,
                                   any_healthy |-> IsHealthy(rotator) # {},
                                   any_unhealthy |->
                                       IsHealthy(rotator) # SeqToSet(rotator.endpoints),
                                   result_healthy |-> out.result \in IsHealthy(rotator)]]
    /\ UNCHANGED outside_rotator

\* await rotator.make_request(endpoint): the response has the given status,
\* or the transport raised (0).
MakeRequest(endpoint, status) ==
    /\ rotator' = [rotator EXCEPT !.endpoint_health = health_after(rotator, endpoint, status)]
    /\ UNCHANGED <<hrot, outside_rotator>>

NextRotator ==
    \/ GetNextEndpoint
    \/ \E endpoint \in SeqToSet(rotator.endpoints), status \in RequestOutcomes :
         MakeRequest(endpoint, status)

SpecRotator == InitRotator /\ [][NextRotator]_vars

\* --------------------------------- a caller of EndpointRotator, in a loop
\* The caller asks get_next_endpoint for an endpoint and sends its request to
\* exactly that endpoint, again and again. hrot is here the caller's
\* position, the endpoint it was handed and the endpoints whose server is
\* down. The strategies are those whose state stays bounded over an endless
\* run (request_count of the sequential strategy grows with every call).
CallerStrategies ==
    {RandomRotationStrategy(a) : a \in BOOLEAN}
    \cup {WeightedRotationStrategy}
    \cup {PatternAvoidanceRotationStrategy(TRUE, 2, 5, 3)}

InitCaller ==
    /\ rotator \in {EndpointRotator(sample_endpoints, sg, TRUE) : sg \in CallerStrategies}
    /\ hrot = [pc |-> "get", endpoint |-> NoEndpoint, down |-> {}]
    /\ cb = None
    /\ now = 0
    /\ in_flight = None
    /\ h = None
    /\ policy = None
    /\ rs = None
    /\ hr = None
    /\ ha = None
    /\ tt = None
    /\ htt = None
    /\ da = None
    /\ par = None
    /\ det = None

\* endpoint = await rotator.get_next_endpoint()
CallerGets ==
    /\ hrot.pc = "get"
    /\ \E out \in strategy_get_next_endpoint(rotator.strategy, endpoints_to_use(rotator)) :
         /\ rotator' = [rotator EXCEPT !.strategy = out.strategy]
         /\ hrot' = [hrot EXCEPT !.pc = "request", !.endpoint = out.result]
    /\ UNCHANGED outside_rotator

\* The statuses a request to the endpoint can end with: a server that is
\* down answers 5xx or the transport raises, a server that is up answers.
Answers(endpoint, down) == IF endpoint \in down THEN {500, 0} ELSE {200, 429}

\* await rotator.make_request(endpoint) for the endpoint handed out.
CallerRequests(status) ==
    /\ hrot.pc = "request"
    /\ status \in Answers(hrot.endpoint, hrot.down)
    /\ rotator' = [rotator EXCEPT
                     !.endpoint_health = health_after(rotator, hrot.endpoint, status)]
    /\ hrot' = [hrot EXCEPT !.pc = "get"]
    /\ UNCHANGED outside_rotator

\* The server behind an endpoint goes down.
ServerFails(endpoint) ==
    /\ endpoint \notin hrot.down
    /\ hrot' = [hrot EXCEPT !.down = @ \cup {endpoint}]
    /\ UNCHANGED <<rotator, outside_rotator>>

\* The server behind an endpoint recovers.
ServerRecovers(endpoint) ==
    /\ endpoint \in hrot.down
    /\ hrot' = [hrot EXCEPT !.down = @ \ {endpoint}]
    /\ UNCHANGED <<rotator, outside_rotator>>

NextCaller ==
    \/ CallerGets
    \/ \E status \in RequestOutcomes : CallerRequests(status)
    \/ \E endpoint \in SeqToSet(sample_endpoints) : ServerFails(endpoint)
    \/ \E endpoint \in SeqToSet(sample_endpoints) : ServerRecovers(endpoint)

\* The caller keeps going: get_next_endpoint returns at once and every
\* request is answered or fails. The servers fail and recover as they like.
SpecCaller ==
    /\ InitCaller
    /\ [][NextCaller]_vars
    /\ WF_vars(CallerGets)
    /\ WF_vars(\E status \in RequestOutcomes : CallerRequests(status))

\* ------------------------------------------------ TierTester
\* RateLimitTier: max_rate > start_rate > 0, increment > 0.
RateLimitTier(window_seconds, start_rate, max_rate, increment, adaptive_increment) ==
    [window_seconds |-> window_seconds, start_rate |-> start_rate, max_rate |-> max_rate,
     increment |-> increment, adaptive_increment |-> adaptive_increment]

Tiers ==
    {RateLimitTier(w, 1, mx, 1, ad) : w \in {10, 60}, mx \in 2..MaxRate, ad \in BOOLEAN}

\* Status of one request of a batch; 0 is asyncio.TimeoutError or ClientError.
Statuses == {200, 429, 500, 0}

Retry_After == <<"R", "e", "t", "r", "y", "-", "A", "f", "t", "e", "r">>

\* The headers a 429 response may carry.
LimitedHeaders ==
    {<<>>} \cup {<< <<nm, v>> >> : nm \in HeaderNames \cup {Retry_After}, v \in HeaderValues}

\* retry_after of a result dict: <<int(Retry-After)>> of a 429, <<>> for None
\* when the header is absent, empty or not an integer.
retry_after_of(status_code, headers) ==
    LET retry_after_header == get(headers, Retry_After)
    IN  IF status_code = 429 /\ truthy(retry_after_header) /\ int(retry_after_header).ok
        THEN <<int(retry_after_header).value>>
        ELSE <<>>

\* What a request may get: a status and, on a 429, rate-limit headers.
Responses ==
    {<<status_code, <<>>>> : status_code \in Statuses \ {429}}
    \cup {<<429, headers>> : headers \in LimitedHeaders}

\* A result dict of _send_request_batch.
BatchResult(status_code, headers) ==
    [success |-> status_code = 200, status_code |-> status_code, headers |-> headers,
     retry_after |-> retry_after_of(status_code, headers)]

\* TierTestResult, or the exception test_tier ended with.
TierTestResult(limit_found, detected_limit, requests_sent, successful_requests, server_errors) ==
    [raised |-> FALSE, exception |-> "", limit_found |-> limit_found,
     detected_limit |-> detected_limit,
     requests_sent |-> requests_sent, successful_requests |-> successful_requests,
     server_errors |-> server_errors,
     backoff_triggered |-> FALSE, retry_after_seconds |-> <<>>,
     adaptive_increments_used |-> 0]

TestRaised == [raised |-> TRUE, exception |-> "ValidationError", limit_found |-> FALSE,
               detected_limit |-> <<>>,
               requests_sent |-> 0, successful_requests |-> 0, server_errors |-> 0,
               backoff_triggered |-> FALSE, retry_after_seconds |-> <<>>,
               adaptive_increments_used |-> 0]

\* asyncio.CancelledError thrown into the coroutine at the await it is
\* suspended on: no handler of TierTester catches it, test_tier ends with it.
TestCancelled == [TestRaised EXCEPT !.exception = "CancelledError"]

\* _extract_limit_from_response once extract_rate_limits has answered:
\* [ok, value]; ok = FALSE when extract_rate_limits or the RateLimit
\* constructor raises. The result dict has no 'current_rate', so the fallback
\* ceiling is max(1, 10 - 1).
limit_from_analysis(analysed, headers, window_seconds) ==
    LET matching == {i \in 1..Len(analysed.limits) :
                       analysed.limits[i].window_seconds = window_seconds}
        limit_header == or_else(get(headers, X_RateLimit_Limit),
                                get(headers, X_Rate_Limit_Limit))
        limit_value == IF truthy(limit_header) /\ int(limit_header).ok
                       THEN int(limit_header).value
                       ELSE 9
    IN  IF analysed.raised THEN [ok |-> FALSE, value |-> None]
        ELSE IF matching # {}
        THEN [ok |-> TRUE,
              value |-> analysed.limits[CHOOSE i \in matching : \A j \in matching : i <= j]]
        ELSE RateLimit(limit_value, 0, None, window_seconds, "testing")

\* extract_rate_limits over the headers a response may carry, as a table.
analysed_headers == [headers \in LimitedHeaders |-> extract_rate_limits(headers)]

extract_limit_from_response(response_result, window_seconds) ==
    limit_from_analysis(analysed_headers[response_result.headers],
                        response_result.headers, window_seconds)

\* The loop over batch_results in _test_tier_impl, over the first n results:
\* the counters, and the index of the 429 that broke the loop (0: none).
RECURSIVE analyse_batch(_, _)
analyse_batch(batch_results, n) ==
    IF n = 0 THEN [successful_requests |-> 0, server_errors |-> 0, rate_limited |-> 0]
    ELSE LET before == analyse_batch(batch_results, n - 1)
             result == batch_results[n]
         IN  IF before.rate_limited # 0 THEN before
             ELSE IF result.success
             THEN [before EXCEPT !.successful_requests = @ + 1]
             ELSE IF result.status_code = 429
             THEN [before EXCEPT !.rate_limited = n]
             ELSE IF result.status_code >= 500
             THEN [before EXCEPT !.server_errors = @ + 1]
             ELSE before

\* adaptive_increments_used += 1 exactly when the increment is doubled.
adaptive_increment_used(tier, successful_requests, requests_sent) ==
    IF tier.adaptive_increment
       /\ (requests_sent = 0 \/ 100 * successful_requests > 95 * requests_sent)
    THEN 1
    ELSE 0

\* Mutant: the rate stays as it is after a batch.
next_increment_none(tier, successful_requests, requests_sent) == 0

\* The increment after a batch: doubled while success_rate > 0.95.
next_increment(tier, successful_requests, requests_sent) ==
    IF tier.adaptive_increment
       /\ (requests_sent = 0 \/ 100 * successful_requests > 95 * requests_sent)
    THEN tier.increment * 2
    ELSE tier.increment

\* The batch ended on a 429.
BatchLimited(batch) == Len(batch) > 0 /\ batch[Len(batch)].status_code = 429

\* _send_request_batch leaves its loop: range(rate) is exhausted or a 429 broke it.
BatchOver(st) ==
    \/ Len(st.batch) = st.current_rate
    \/ (Len(st.batch) > 0 /\ st.batch[Len(st.batch)].status_code = 429)

\* An exception of _extract_limit_from_response leaves the test at once;
\* otherwise the result carries backoff_triggered, retry_after_seconds and
\* adaptive_increments_used, and a truthy retry_after_seconds is slept,
\* min(retry_after_seconds, 10) seconds, before the test returns.
Returned(st) ==
    IF st.pc \notin {"done", "backoff"} THEN st
    ELSE IF st.result.raised THEN [st EXCEPT !.pc = "done"]
    ELSE [st EXCEPT
            !.slept = IF st.pc = "backoff" THEN <<Min(st.retry_after_seconds[1], 10)>>
                      ELSE @,
            !.result = [@ EXCEPT
                          !.backoff_triggered = st.pc = "backoff",
                          !.retry_after_seconds = st.retry_after_seconds,
                          !.adaptive_increments_used = st.adaptive_increments_used]]

\* The response carries no rate-limit header at all (at most a Retry-After).
NoCeilingHeader(headers) ==
    \A k \in 1..Len(headers) : headers[k][1] = Retry_After

InitTester ==
    /\ tt \in {[pc |-> "while", tier |-> tier, current_rate |-> tier.start_rate,
                requests_sent |-> 0, successful_requests |-> 0, server_errors |-> 0,
                batch |-> <<>>, expired |-> FALSE, result |-> None,
                retry_after_seconds |-> <<>>, adaptive_increments_used |-> 0,
                slept |-> <<>>] : tier \in Tiers}
    /\ htt = [saw_429 |-> FALSE, after_429 |-> 0, cancelled |-> FALSE,
              bare_429 |-> FALSE, last_batch |-> <<>>]
    /\ cb = None
    /\ now = 0
    /\ in_flight = None
    /\ h = None
    /\ policy = None
    /\ rs = None
    /\ hr = None
    /\ ha = None
    /\ rotator = None
    /\ hrot = None
    /\ det = None
    /\ da = None
    /\ par = None

\* time.time() reaches end_time.
TestDurationEnds ==
    /\ tt.pc # "done"
    /\ ~tt.expired
    /\ tt' = [tt EXCEPT !.expired = TRUE]
    /\ UNCHANGED <<htt, outside_tester>>

\* The while test of _test_tier_impl: another batch starts, or the loop ends
\* without a limit and the result is built.
WhileTest ==
    /\ tt.pc = "while"
    /\ IF ~tt.expired /\ tt.current_rate <= tt.tier.max_rate
       THEN tt' = [tt EXCEPT !.pc = "batch", !.batch = <<>>]
       ELSE tt' = Returned([tt EXCEPT !.pc = "done",
                                      !.result = TierTestResult(FALSE, <<>>, tt.requests_sent,
                                                                tt.successful_requests,
                                                                tt.server_errors)])
    /\ UNCHANGED <<htt, outside_tester>>

\* One iteration of the for loop of _send_request_batch: a request is issued
\* and its response (or transport error) is recorded.
SendRequest(status_code, headers) ==
    /\ tt.pc = "batch"
    /\ ~BatchOver(tt)
    /\ tt' = [tt EXCEPT !.batch = Append(@, BatchResult(status_code, headers))]
    /\ htt' = [htt EXCEPT
                 !.saw_429 = @ \/ status_code = 429,
                 !.bare_429 = @ \/ (status_code = 429 /\ NoCeilingHeader(headers)),
                 !.after_429 = IF htt.saw_429 THEN @ + 1 ELSE @]
    /\ UNCHANGED outside_tester

\* The end of _test_tier_impl after a 429: the result, or the exception of
\* _extract_limit_from_response.
limited_result(detected, requests_sent, successful_requests, server_errors) ==
    IF detected.ok
    THEN TierTestResult(TRUE, <<detected.value>>, requests_sent, successful_requests,
                        server_errors)
    ELSE TestRaised

\* `if retry_after_seconds:` after a 429 whose limit was extracted: the test
\* sleeps min(retry_after_seconds, 10) before it returns.
backoff_pc(retry_after_seconds) ==
    IF retry_after_seconds # <<>> /\ retry_after_seconds[1] # 0 THEN "backoff" ELSE "done"

\* _test_tier_impl after a batch whose analysis is `seen`.
after_batch(st, seen, requests_sent, successful_requests) ==
    IF seen.rate_limited # 0
    THEN [st EXCEPT
            !.pc = backoff_pc(st.batch[seen.rate_limited].retry_after), !.batch = <<>>,
            !.retry_after_seconds = st.batch[seen.rate_limited].retry_after,
            !.requests_sent = requests_sent,
            !.successful_requests = successful_requests,
            !.server_errors = @ + seen.server_errors,
            !.result = limited_result(
                           extract_limit_from_response(st.batch[seen.rate_limited],
                                                       st.tier.window_seconds),
                           requests_sent, successful_requests,
                           st.server_errors + seen.server_errors)]
    ELSE [st EXCEPT
            !.pc = "while", !.batch = <<>>,
            !.requests_sent = requests_sent,
            !.successful_requests = successful_requests,
            !.server_errors = @ + seen.server_errors,
            !.adaptive_increments_used =
                @ + adaptive_increment_used(st.tier, successful_requests, requests_sent),
            !.current_rate = @ + next_increment(st.tier, successful_requests,
                                                requests_sent)]

analysed_batch(st, seen) ==
    after_batch(st, seen, st.requests_sent + Len(st.batch),
                st.successful_requests + seen.successful_requests)

\* _send_request_batch returns and _test_tier_impl analyses the batch: on a 429
\* the limit is extracted and the test returns (or raises), otherwise the rate
\* grows and the loop goes on.
BatchReturns ==
    /\ tt.pc = "batch"
    /\ BatchOver(tt)
    /\ \E seen \in {analyse_batch(tt.batch, Len(tt.batch))} :
         \E st \in {analysed_batch(tt, seen)} : tt' = Returned(st)
    /\ htt' = [htt EXCEPT
                 !.last_batch =
                     <<[rate |-> tt.current_rate,
                        sent |-> Len(tt.batch),
                        successful |-> Cardinality({k \in 1..Len(tt.batch) :
                                                      tt.batch[k].success}),
                        limited |-> BatchLimited(tt.batch),
                        used |-> tt.adaptive_increments_used]>>]
    /\ UNCHANGED outside_tester

\* asyncio.sleep(min(retry_after_seconds, 10)) returns, then `break` and the
\* result is returned.
BackoffEnds ==
    /\ tt.pc = "backoff"
    /\ tt' = [tt EXCEPT !.pc = "done"]
    /\ UNCHANGED <<htt, outside_tester>>

\* The awaits of the test: a request or the interval sleep of a batch, the
\* sleep to the end of the window after a batch, the Retry-After sleep.
Suspended(st) ==
    \/ st.pc = "batch" /\ ~BatchOver(st)
    \/ st.pc = "while" /\ st.requests_sent > 0
    \/ st.pc = "backoff"

\* The task running test_tier is cancelled while suspended.
Cancel ==
    /\ Suspended(tt)
    /\ tt' = [tt EXCEPT !.pc = "done", !.result = TestCancelled]
    /\ htt' = [htt EXCEPT !.cancelled = TRUE]
    /\ UNCHANGED outside_tester

NextTester ==
    \/ TestDurationEnds
    \/ WhileTest
    \/ \E response \in Responses : SendRequest(response[1], response[2])
    \/ BatchReturns
    \/ BackoffEnds
    \/ Cancel

SpecTester == InitTester /\ [][NextTester]_vars

\* The steps of the coroutine itself. Every request returns or times out and
\* every sleep ends, so the event loop resumes the coroutine: a step that
\* stays possible is taken. The clock reaching end_time and a cancellation
\* are left to the environment.
TesterStep ==
    \/ WhileTest
    \/ \E response \in Responses : SendRequest(response[1], response[2])
    \/ BatchReturns
    \/ BackoffEnds

SpecTesterFair == SpecTester /\ WF_vars(TesterStep)

\* ------------------------------------------------ MultiTierDetector
\* The limits detect_all_rate_limits may merge: valid RateLimit records.
MergedLimits ==
    {RateLimit(l, 0, None, w, via).value :
       l \in 1..MaxLimit, w \in {10, 30, 60}, via \in {"headers", "testing"}}

tier_names == (10 :> "10_seconds" @@ 60 :> "minute" @@ 900 :> "15_minutes"
               @@ 3600 :> "hour" @@ 86400 :> "day")

\* tier_names.get(window_seconds, f"{window_seconds}s")
tier_label(window_seconds) ==
    IF window_seconds \in DOMAIN tier_names THEN tier_names[window_seconds]
    ELSE ToString(window_seconds) \o "s"

\* a.requests_per_second < b.requests_per_second: limit / window_seconds on
\* both sides, compared exactly.
rps_less(a, b) == a.limit * b.window_seconds < b.limit * a.window_seconds

\* Mutant: a later limit of equal rate replaces the earlier one.
scan_most_restrictive_last(limits, n) ==
    IF n <= 1 THEN n
    ELSE CHOOSE i \in 1..n :
           /\ \A j \in 1..n : ~rps_less(limits[j], limits[i])
           /\ \A j \in (i + 1)..n : rps_less(limits[i], limits[j])

\* The loop of _find_most_restrictive_limit over the first n limits: the
\* index of the limit whose rps became min_rps (0: min_rps is still inf).
RECURSIVE scan_most_restrictive(_, _)
scan_most_restrictive(limits, n) ==
    IF n = 0 THEN 0
    ELSE LET best == scan_most_restrictive(limits, n - 1)
         IN  IF best = 0 \/ rps_less(limits[n], limits[best]) THEN n ELSE best

find_most_restrictive_limit(limits) ==
    IF Len(limits) = 0 THEN "unknown"
    ELSE LET best == scan_most_restrictive(limits, Len(limits))
         IN  IF best = 0 THEN "unknown" ELSE tier_label(limits[best].window_seconds)

\* min(limits, key=lambda l: l.requests_per_second) over the first n limits:
\* the index of the first limit of smallest rate.
RECURSIVE min_requests_per_second(_, _)
min_requests_per_second(limits, n) ==
    IF n = 1 THEN 1
    ELSE LET best == min_requests_per_second(limits, n - 1)
         IN  IF rps_less(limits[n], limits[best]) THEN n ELSE best

Max(a, b) == IF a >= b THEN a ELSE b

\* int(limit * 0.9): the double nearest to 0.9 lies above 0.9 by less than a
\* quarter of an ulp, so the product of an integer multiple of 10 rounds to
\* the exact integer and int() gives floor(9 * limit / 10).
safety_margin(limit) == (9 * limit) \div 10

calculate_recommended_rate(limits) ==
    IF Len(limits) = 0 THEN 1
    ELSE LET min_limit == limits[min_requests_per_second(limits, Len(limits))]
             recommended == safety_margin(min_limit.limit)
         IN  Max(1, recommended)

\* sorted(limits, key=lambda l: l.window_seconds) over the first n limits:
\* the sort is stable, limits of equal window keep their order.
RECURSIVE sorted_by_window(_, _)
sorted_by_window(limits, n) ==
    IF n = 0 THEN <<>>
    ELSE LET rest == sorted_by_window(limits, n - 1)
             k == Cardinality({i \in 1..Len(rest) :
                                 rest[i].window_seconds <= limits[n].window_seconds})
         IN  SubSeq(rest, 1, k) \o <<limits[n]>> \o SubSeq(rest, k + 1, Len(rest))

\* Mutant: the tolerance of 10% is left out.
exceeds_tolerance_none(current, next_limit) ==
    current.limit * next_limit.window_seconds > next_limit.limit * current.window_seconds

\* current_rps > next_rps * 1.1, compared exactly (no pair of the limits
\* modelled lies within a rounding error of the threshold).
exceeds_tolerance(current, next_limit) ==
    10 * current.limit * next_limit.window_seconds
      > 11 * next_limit.limit * current.window_seconds

\* The loop of _validate_consistency over the first n adjacent pairs of
\* sorted_limits; a warning is kept as <<window, next window>>.
RECURSIVE consistency_loop(_, _)
consistency_loop(sorted_limits, n) ==
    IF n = 0 THEN <<>>
    ELSE consistency_loop(sorted_limits, n - 1)
           \o (IF exceeds_tolerance(sorted_limits[n], sorted_limits[n + 1])
               THEN <<<<sorted_limits[n].window_seconds,
                        sorted_limits[n + 1].window_seconds>>>>
               ELSE <<>>)

validate_consistency(limits) ==
    IF Len(limits) < 2 THEN <<>>
    ELSE consistency_loop(sorted_by_window(limits, Len(limits)), Len(limits) - 1)

\* The tier slots of a MultiTierResult, all empty after construction.
empty_slots ==
    [ten_second_limit |-> <<>>, minute_limit |-> <<>>, fifteen_minute_limit |-> <<>>,
     hour_limit |-> <<>>, day_limit |-> <<>>]

\* The body of the loop of _assign_limits_to_tiers.
assign_limit(result, limit) ==
    IF limit.window_seconds = 10 THEN [result EXCEPT !.ten_second_limit = <<limit>>]
    ELSE IF limit.window_seconds = 60 THEN [result EXCEPT !.minute_limit = <<limit>>]
    ELSE IF limit.window_seconds = 900
    THEN [result EXCEPT !.fifteen_minute_limit = <<limit>>]
    ELSE IF limit.window_seconds = 3600 THEN [result EXCEPT !.hour_limit = <<limit>>]
    ELSE IF limit.window_seconds = 86400 THEN [result EXCEPT !.day_limit = <<limit>>]
    ELSE result

\* _assign_limits_to_tiers over the first n limits.
RECURSIVE assign_limits_to_tiers(_, _, _)
assign_limits_to_tiers(result, limits, n) ==
    IF n = 0 THEN result
    ELSE assign_limit(assign_limits_to_tiers(result, limits, n - 1), limits[n])

\* The slot _assign_limits_to_tiers fills for a window (<<>> for a window
\* without a slot).
slot(result, window_seconds) ==
    IF window_seconds = 10 THEN result.ten_second_limit
    ELSE IF window_seconds = 60 THEN result.minute_limit
    ELSE IF window_seconds = 900 THEN result.fifteen_minute_limit
    ELSE IF window_seconds = 3600 THEN result.hour_limit
    ELSE IF window_seconds = 86400 THEN result.day_limit
    ELSE <<>>

InitDetector ==
    /\ det = [pc |-> "merge", all_limits |-> <<>>, most_restrictive |-> "",
              recommended_rate |-> None, result |-> empty_slots,
              consistency_warnings |-> <<>>]
    /\ cb = None
    /\ now = 0
    /\ in_flight = None
    /\ h = None
    /\ policy = None
    /\ rs = None
    /\ hr = None
    /\ ha = None
    /\ rotator = None
    /\ hrot = None
    /\ tt = None
    /\ htt = None
    /\ da = None
    /\ par = None

\* all_limits = header_limits + [detected limits]: one more limit is merged.
MergeLimit(limit) ==
    /\ det.pc = "merge"
    /\ Len(det.all_limits) < MaxLimits
    /\ det' = [det EXCEPT !.all_limits = Append(@, limit)]
    /\ UNCHANGED outside_detector

\* most_restrictive = self._find_most_restrictive_limit(all_limits)
\* recommended_rate = self._calculate_recommended_rate(all_limits)
FindMostRestrictive ==
    /\ det.pc = "merge"
    /\ det' = [det EXCEPT !.pc = "done",
                          !.most_restrictive = find_most_restrictive_limit(det.all_limits),
                          !.recommended_rate = calculate_recommended_rate(det.all_limits)]
    /\ UNCHANGED outside_detector

\* self._assign_limits_to_tiers(result, all_limits) and
\* result.consistency_warnings = self._validate_consistency(all_limits),
\* applied with validate_consistency set to a result whose slots are empty.
AssignLimitsToTiers ==
    /\ det.pc = "done"
    /\ det' = [det EXCEPT
                 !.pc = "assigned",
                 !.result = assign_limits_to_tiers(@, det.all_limits, Len(det.all_limits)),
                 !.consistency_warnings = validate_consistency(det.all_limits)]
    /\ UNCHANGED outside_detector

NextDetector ==
    \/ \E limit \in MergedLimits : MergeLimit(limit)
    \/ FindMostRestrictive
    \/ AssignLimitsToTiers

SpecDetector == InitDetector /\ [][NextDetector]_vars

\* ------------------------------- MultiTierDetector.detect_all_rate_limits
X_RateLimit_Limit_Minute == <<"X", "-", "R", "a", "t", "e", "L", "i", "m", "i", "t", "-", "L", "i", "m", "i", "t", "-", "M", "i", "n", "u", "t", "e">>
X_RateLimit_Limit_Hour == <<"X", "-", "R", "a", "t", "e", "L", "i", "m", "i", "t", "-", "L", "i", "m", "i", "t", "-", "H", "o", "u", "r">>
X_RateLimit_Limit_Day == <<"X", "-", "R", "a", "t", "e", "L", "i", "m", "i", "t", "-", "L", "i", "m", "i", "t", "-", "D", "a", "y">>

\* The probe response of the first end-to-end scenario: per-minute, per-hour
\* and per-day ceilings of 100, 5000 and 100000.
ScenarioHeaders ==
    <<<<X_RateLimit_Limit_Minute, <<"1", "0", "0">>>>,
      <<X_RateLimit_Limit_Hour, <<"5", "0", "0", "0">>>>,
      <<X_RateLimit_Limit_Day, <<"1", "0", "0", "0", "0", "0">>>>>>

X_RateLimit_Limit_10s == <<"X", "-", "R", "a", "t", "e", "L", "i", "m", "i", "t", "-", "L", "i", "m", "i", "t", "-", "1", "0", "s">>

\* The probe response of the contradictory-disclosure scenario: 100 per 10 s
\* and 300 per minute.
ContradictoryHeaders ==
    <<<<X_RateLimit_Limit_10s, <<"1", "0", "0">>>>,
      <<X_RateLimit_Limit_Minute, <<"3", "0", "0">>>>>>

\* The header sets the probe may be answered with: none, the scenarios', one
\* untiered limit, and one that makes extract_rate_limits raise.
ProbeHeaders ==
    {<<>>,
     ScenarioHeaders,
     ContradictoryHeaders,
     <<<<X_RateLimit_Limit, <<"5">>>>>>,
     <<<<X_Rate_Limit_Limit_Minute, <<"0">>>>>>}

\* The windows of the tiers handed to the detector, in list order.
TierWindows == <<10, 60, 900, 3600, 86400>>

\* What tester.test_tier may end with for a tier of window w: a limit found,
\* none found, an exception, a cancellation.
TierOutcomes(w) ==
    {TierTestResult(TRUE, <<RateLimit(9, 0, None, w, "testing").value>>, 1, 0, 0),
     TierTestResult(FALSE, <<>>, 2, 2, 0),
     TestRaised,
     TestCancelled}

\* The TierTestResult _test_tiers records for a tier whose test raised.
error_result == TierTestResult(FALSE, <<>>, 0, 0, 0)

\* [r.detected_limit for r in tested_limits if r.detected_limit], over the
\* first n results.
RECURSIVE detected_limits(_, _)
detected_limits(tested_limits, n) ==
    IF n = 0 THEN <<>>
    ELSE detected_limits(tested_limits, n - 1) \o tested_limits[n].detected_limit

\* sum(r.requests_sent for r in tested_limits), over the first n results.
RECURSIVE total_requests(_, _)
total_requests(tested_limits, n) ==
    IF n = 0 THEN 0
    ELSE total_requests(tested_limits, n - 1) + tested_limits[n].requests_sent

\* MultiTierResult(...): [ok, value], ok = FALSE for pydantic's
\* ValidationError. confidence_score is <<>> when the keyword is not passed,
\* else <<the score in hundredths>>; the field has no default, so it is
\* required. consistency_warnings is <<>> for its default None, else
\* <<the list of warnings>>.
MultiTierResult(most_restrictive, recommended_rate, limits_found, requests, tier_results, confidence_score, parallel_execution) ==
    IF /\ recommended_rate > 0
       /\ limits_found >= 0
       /\ requests >= 0
       /\ confidence_score # <<>>
       /\ confidence_score[1] >= 0
       /\ confidence_score[1] <= 100
    THEN [ok |-> TRUE,
          value |-> [ten_second_limit |-> <<>>, minute_limit |-> <<>>,
                     fifteen_minute_limit |-> <<>>, hour_limit |-> <<>>,
                     day_limit |-> <<>>,
                     most_restrictive |-> most_restrictive,
                     recommended_rate |-> recommended_rate,
                     limits_found |-> limits_found,
                     total_requests |-> requests,
                     confidence_score |-> confidence_score[1],
                     tier_results |-> tier_results,
                     consistency_warnings |-> <<>>,
                     parallel_execution |-> parallel_execution]]
    ELSE [ok |-> FALSE, value |-> None]

\* How a call ended: the returned MultiTierResult (<<result>>), or the
\* exception raised; NoOutcome while the call is running.
Returns(result) == [raised |-> FALSE, exception |-> "", result |-> <<result>>]
Raises(exception) == [raised |-> TRUE, exception |-> exception, result |-> <<>>]
NoOutcome == [raised |-> FALSE, exception |-> "", result |-> <<>>]

\* The end of detect_all_rate_limits and of test_tiers_parallel: the result
\* is constructed (without confidence_score), the slots are assigned and the
\* result is returned.
collected(made, all_limits) ==
    IF made.ok
    THEN Returns(assign_limits_to_tiers(made.value, all_limits, Len(all_limits)))
    ELSE Raises("ValidationError")

\* `if validate_consistency: result.consistency_warnings = ...` on the
\* result that was constructed.
validated(outcome, validate, all_limits) ==
    IF validate /\ ~outcome.raised
    THEN Returns([outcome.result[1] EXCEPT
                    !.consistency_warnings = <<validate_consistency(all_limits)>>])
    ELSE outcome

InitDetect ==
    /\ da \in {[pc |-> "probe", tiers |-> SubSeq(TierWindows, 1, n),
                stop_on_first_limit |-> stop, validate_consistency |-> validate,
                probe |-> "pending",
                response_headers |-> <<>>, header_limits |-> <<>>,
                tested_limits |-> <<>>, tests_started |-> 0, issued |-> <<>>,
                all_limits |-> <<>>, most_restrictive |-> "",
                recommended_rate |-> None, outcome |-> NoOutcome] :
                 n \in 0..MaxTiers, stop \in BOOLEAN, validate \in BOOLEAN}
    /\ cb = None
    /\ now = 0
    /\ in_flight = None
    /\ h = None
    /\ policy = None
    /\ rs = None
    /\ hr = None
    /\ ha = None
    /\ rotator = None
    /\ hrot = None
    /\ tt = None
    /\ htt = None
    /\ det = None
    /\ par = None

\* `if tiers_to_test:` after _analyze_headers has returned.
after_probe(st) ==
    [st EXCEPT !.pc = IF Len(st.tiers) > 0 THEN "tiers" ELSE "collect"]

\* _analyze_headers: the probe is answered with `headers`; an exception of
\* extract_rate_limits is caught and gives [].
ProbeResponds(headers) ==
    /\ da.pc = "probe"
    /\ LET analysed == extract_rate_limits(headers)
       IN  da' = after_probe([da EXCEPT
                    !.probe = "ok",
                    !.issued = Append(@, 0),
                    !.response_headers = headers,
                    !.header_limits = IF analysed.raised THEN <<>> ELSE analysed.limits])
    /\ UNCHANGED outside_detect

\* _analyze_headers: the probe request fails (connection error or timeout);
\* `except Exception` logs it and returns [].
ProbeFails ==
    /\ da.pc = "probe"
    /\ da' = after_probe([da EXCEPT !.probe = "failed", !.header_limits = <<>>,
                                    !.issued = Append(@, 0)])
    /\ UNCHANGED outside_detect

\* Mutant: the loop of _test_tiers never breaks.
next_tier_no_break(st, stop) ==
    [st EXCEPT !.pc = IF Len(st.tested_limits) = Len(st.tiers) THEN "collect" ELSE "tiers"]

\* The loop of _test_tiers goes on with the next tier or is over.
next_tier(st, stop) ==
    [st EXCEPT !.pc = IF stop \/ Len(st.tested_limits) = Len(st.tiers)
                      THEN "collect" ELSE "tiers"]

\* One iteration of the loop of _test_tiers: test_tier ends with `outcome`.
\* A CancelledError is not an Exception and leaves detect_all_rate_limits.
\* issued lists the requests' purposes in order: 0 for the probe, the
\* window for the test of a tier.
TierTestEnds(outcome) ==
    /\ da.pc = "tiers"
    /\ LET st == [da EXCEPT !.tests_started = @ + 1,
                            !.issued = Append(@, da.tiers[Len(da.tested_limits) + 1])]
       IN  da' = IF outcome.raised /\ outcome.exception = "CancelledError"
                 THEN [st EXCEPT !.pc = "done", !.outcome = Raises("CancelledError")]
                 ELSE IF outcome.raised
                 THEN next_tier([st EXCEPT !.tested_limits = Append(@, error_result)],
                                FALSE)
                 ELSE next_tier([st EXCEPT !.tested_limits = Append(@, outcome)],
                                outcome.limit_found /\ st.stop_on_first_limit)
    /\ UNCHANGED outside_detect

\* Lines 475-505: the limits are merged, most_restrictive and
\* recommended_rate computed, the MultiTierResult constructed and returned.
Collect ==
    /\ da.pc = "collect"
    /\ LET all_limits == da.header_limits
                           \o detected_limits(da.tested_limits, Len(da.tested_limits))
           most_restrictive == find_most_restrictive_limit(all_limits)
           recommended_rate == calculate_recommended_rate(all_limits)
           made == MultiTierResult(most_restrictive, recommended_rate, Len(all_limits),
                                   total_requests(da.tested_limits, Len(da.tested_limits)),
                                   da.tested_limits, <<>>, FALSE)
       IN  da' = [da EXCEPT !.pc = "done",
                            !.all_limits = all_limits,
                            !.most_restrictive = most_restrictive,
                            !.recommended_rate = recommended_rate,
                            !.outcome = validated(collected(made, all_limits),
                                                  da.validate_consistency, all_limits)]
    /\ UNCHANGED outside_detect

NextDetect ==
    \/ \E headers \in ProbeHeaders : ProbeResponds(headers)
    \/ ProbeFails
    \/ \E outcome \in TierOutcomes(TierWindows[Len(da.tested_limits) + 1]) :
         TierTestEnds(outcome)
    \/ Collect

SpecDetect == InitDetect /\ [][NextDetect]_vars

\* ---------------------------------- MultiTierDetector.test_tiers_parallel
\* Semaphore.locked(): no permit is left, or a waiter is queued before us.
locked_never(value, waiters) == FALSE

locked(value, waiters) == value = 0 \/ Len(waiters) > 0

\* A task of test_tier_with_semaphore: where it stands, what test_tier ended
\* with (<<>> until then) and how many times its test was started.
Task(status) == [status |-> status, outcome |-> <<>>, started |-> 0]

\* The first task whose future Semaphore._wake_up_next finds not done (0 when
\* there is none).
first_waiting(task, waiters) ==
    LET pending == {k \in 1..Len(waiters) : task[waiters[k]].status = "waiting"}
    IN  IF pending = {} THEN 0
        ELSE waiters[CHOOSE k \in pending : \A m \in pending : k <= m]

\* Semaphore._wake_up_next: the first waiter whose future is not done takes
\* the permit and its future is resolved.
wake_up_next(st) ==
    LET i == first_waiting(st.task, st.waiters)
    IN  IF i = 0 THEN st
        ELSE [st EXCEPT !.value = @ - 1, !.task[i].status = "woken"]

\* Semaphore.release()
release(st) == wake_up_next([st EXCEPT !.value = @ + 1])

\* The tasks inside `async with semaphore`, a Tier Tester running.
Running(st) == {i \in 1..Len(st.task) : st.task[i].status = "running"}

Finished(st) == {i \in 1..Len(st.task) : st.task[i].status = "finished"}

InitParallel ==
    /\ par \in {[pc |-> "gather", max_concurrent |-> m, value |-> m,
                 waiters |-> <<>>, task |-> [i \in 1..n |-> Task("created")],
                 valid_results |-> <<>>, outcome |-> NoOutcome] :
                  n \in 0..MaxTiers, m \in 1..MaxConcurrent}
    /\ cb = None
    /\ now = 0
    /\ in_flight = None
    /\ h = None
    /\ policy = None
    /\ rs = None
    /\ hr = None
    /\ ha = None
    /\ rotator = None
    /\ hrot = None
    /\ tt = None
    /\ htt = None
    /\ det = None
    /\ da = None

\* Task i runs for the first time (the loop starts the tasks in the order
\* gather created them) and reaches `async with semaphore`: acquire() takes a
\* permit at once or queues a future and suspends.
Enter(i) ==
    /\ par.pc = "gather"
    /\ par.task[i].status = "created"
    /\ \A j \in 1..(i - 1) : par.task[j].status # "created"
    /\ par' = IF ~locked(par.value, par.waiters)
              THEN [par EXCEPT !.value = @ - 1, !.task[i].status = "running",
                               !.task[i].started = @ + 1]
              ELSE [par EXCEPT !.waiters = Append(@, i), !.task[i].status = "waiting"]
    /\ UNCHANGED outside_parallel

\* Task i resumes in acquire() after its future was resolved: it leaves the
\* queue, passes a spare permit on, and enters the `async with` body.
Resume(i) ==
    /\ par.pc = "gather"
    /\ par.task[i].status = "woken"
    /\ LET st == [par EXCEPT !.waiters = without(@, i), !.task[i].status = "running",
                             !.task[i].started = @ + 1]
       IN  par' = IF st.value > 0 THEN wake_up_next(st) ELSE st
    /\ UNCHANGED outside_parallel

\* tester.test_tier of task i ends with `outcome` (a result or an exception);
\* leaving `async with semaphore` releases the permit either way.
TestEnds(i, outcome) ==
    /\ par.pc = "gather"
    /\ par.task[i].status = "running"
    /\ par' = release([par EXCEPT !.task[i].status = "finished",
                                  !.task[i].outcome = <<outcome>>])
    /\ UNCHANGED outside_parallel

\* The results gather returns that are TierTestResult instances, in task
\* order, over the first n tasks.
RECURSIVE valid_results(_, _)
valid_results(task, n) ==
    IF n = 0 THEN <<>>
    ELSE IF task[n].outcome[1].raised THEN valid_results(task, n - 1)
    ELSE Append(valid_results(task, n - 1), task[n].outcome[1])

\* asyncio.gather(*tasks, return_exceptions=True) returns once every task is
\* done; the valid results are kept and the MultiTierResult is constructed.
Gather ==
    /\ par.pc = "gather"
    /\ Finished(par) = 1..Len(par.task)
    /\ LET results == valid_results(par.task, Len(par.task))
           all_limits == detected_limits(results, Len(results))
           most_restrictive == find_most_restrictive_limit(all_limits)
           recommended_rate == calculate_recommended_rate(all_limits)
           made == MultiTierResult(most_restrictive, recommended_rate, Len(all_limits),
                                   total_requests(results, Len(results)),
                                   results, <<>>, TRUE)
       IN  par' = [par EXCEPT !.pc = "done",
                              !.valid_results = results,
                              !.outcome = collected(made, all_limits)]
    /\ UNCHANGED outside_parallel

NextParallel ==
    \/ \E i \in 1..Len(par.task) : Enter(i)
    \/ \E i \in 1..Len(par.task) : Resume(i)
    \/ \E i \in 1..Len(par.task) : \E outcome \in TierOutcomes(TierWindows[i]) :
         TestEnds(i, outcome)
    \/ Gather

SpecParallel == InitParallel /\ [][NextParallel]_vars

\* The event loop runs every callback that is ready, and every tier test
\* ends (test_duration_seconds bounds its loop, ClientTimeout its requests).
SpecParallelFair == SpecParallel /\ WF_vars(NextParallel)

\* ================================================================ claims
Elapsed == now - cb.last_failure_time
FirstOpening == IF cb.failure_threshold = 0 THEN 1 ELSE cb.failure_threshold

\* C1: a call made while the breaker is OPEN and less than recovery_timeout has
\* elapsed since the last recorded failure is rejected with the breaker-open
\* error, does not reach the wrapped function, and leaves state, failure_count,
\* success_count and half_open_calls unchanged.
C1_OpenRejects ==
    [][(Call /\ cb.state = OPEN /\ cb.last_failure_time # None
             /\ Elapsed < cb.recovery_timeout)
       => /\ h'.last.op = "breaker_open"
          /\ in_flight' = in_flight
          /\ cb'.state = cb.state
          /\ cb'.failure_count = cb.failure_count
          /\ cb'.success_count = cb.success_count
          /\ cb'.half_open_calls = cb.half_open_calls]_vars

C1_Witness ==
    /\ h.last.op = "breaker_open"
    /\ cb.state = OPEN
    /\ InFlightTotal = 0

\* C2: in CLOSED every failed call adds exactly one to failure_count and the
\* breaker opens exactly when failure_count reaches failure_threshold; from the
\* start, failures below the threshold leave it CLOSED and the T-th failure
\* (the first one when T = 0) opens it.
C2_ClosedFailures ==
    /\ [][\A k \in {CLOSED, HALF_OPEN} :
            (FuncRaises(k) /\ cb.state = CLOSED)
            => /\ cb'.failure_count = cb.failure_count + 1
               /\ cb'.state \in {CLOSED, OPEN}
               /\ cb'.state = OPEN <=> cb'.failure_count >= cb.failure_threshold]_vars
    /\ [](h.only_failures # None
          => /\ h.only_failures < FirstOpening => cb.state = CLOSED
             /\ h.only_failures >= FirstOpening => cb.state # CLOSED
             /\ (h.only_failures = FirstOpening /\ InFlightTotal = 0)
                => (cb.state = OPEN /\ cb.failure_count = FirstOpening))

C2_Witness ==
    /\ h.last.op = "raise"
    /\ h.last.from = CLOSED
    /\ cb.failure_threshold = 3
    /\ h.only_failures = 3
    /\ cb.state = OPEN

\* C3: a call arriving while the breaker is OPEN, at or after recovery_timeout
\* past the instant it entered OPEN, moves it to HALF_OPEN and is admitted.
C3_RecoveryFromEntry ==
    [][(Call /\ cb.state = OPEN /\ h.opened_at # None
             /\ now >= h.opened_at + cb.recovery_timeout)
       => (cb'.state = HALF_OPEN /\ h'.last.op = "invoke")]_vars

\* C4: a failure completing in HALF_OPEN opens the breaker and resets
\* success_count, so success_count is exactly the number of successes completed
\* since HALF_OPEN was entered and is 0 outside HALF_OPEN.
C4_HalfOpenFailure ==
    /\ (h.last.op = "raise" /\ h.last.from = HALF_OPEN)
       => (cb.state = OPEN /\ cb.success_count = 0)
    /\ cb.state = HALF_OPEN => cb.success_count = h.streak
    /\ cb.state # HALF_OPEN => cb.success_count = 0

C4_Witness ==
    /\ h.last.op = "raise"
    /\ h.last.from = HALF_OPEN
    /\ h.streak >= 1
    /\ cb.state = OPEN
    /\ cb.success_count = 0

\* C5: once success_threshold successes have completed in HALF_OPEN the breaker
\* is CLOSED with failure_count = 0 and success_count = 0, and the first failure
\* after closing leaves failure_count = 1.
C5_ClosedReset ==
    /\ (h.last.op = "return" /\ h.last.from = HALF_OPEN
          /\ h.streak >= cb.success_threshold)
       => (cb.state = CLOSED /\ cb.failure_count = 0 /\ cb.success_count = 0)
    /\ (h.last.op = "raise" /\ h.last.fresh) => cb.failure_count = 1

C5_Witness ==
    /\ h.last.op = "raise"
    /\ h.last.fresh
    /\ cb.failure_threshold >= 2
    /\ cb.success_threshold >= 2
    /\ cb.state = CLOSED
    /\ cb.failure_count = 1

\* C6: after the breaker has opened and recovery_timeout has elapsed, with calls
\* made one at a time and all succeeding, none of the next success_threshold
\* calls is rejected: a call arriving in HALF_OPEN with nothing in flight and
\* fewer than success_threshold successes so far is admitted.
C6_RecoveryNotRejected ==
    [][(Call /\ cb.state = HALF_OPEN /\ InFlightTotal = 0
             /\ h.streak < cb.success_threshold)
       => h'.last.op = "invoke"]_vars

\* C7: the number of in-flight calls that were admitted while the breaker was
\* HALF_OPEN never exceeds half_open_max_calls.
C7_HalfOpenInFlightBound ==
    in_flight[HALF_OPEN] <= cb.half_open_max_calls

\* C8 (as stated): with failure_threshold = 3 the breaker is still CLOSED after
\* the third of the consecutive failing calls and OPEN after the fourth.
C8_OpensOnFourth ==
    cb.failure_threshold = 3
    => /\ h.only_failures \in 0..3 => cb.state = CLOSED
       /\ (h.only_failures = 4 /\ InFlightTotal = 0) => cb.state = OPEN

\* C8 (amended): with failure_threshold = 3 the first three consecutive calls
\* reach the wrapped function; the breaker is CLOSED after the second failure
\* and OPEN after the third, and the fourth call, made before recovery_timeout
\* elapses, is the first one rejected as breaker-open.
C8_OpensOnThird ==
    /\ [](cb.failure_threshold = 3
          => /\ h.only_failures \in 0..2 => (cb.state = CLOSED /\ ~h.rejected)
             /\ (h.only_failures = 3 /\ InFlightTotal = 0) => cb.state = OPEN)
    /\ [][(Call /\ cb.failure_threshold = 3 /\ h.only_failures = 3
                /\ InFlightTotal = 0 /\ Elapsed < cb.recovery_timeout)
          => h'.last.op = "breaker_open"]_vars

C8_Witness ==
    /\ cb.failure_threshold = 3
    /\ h.only_failures = 3
    /\ h.last.op = "breaker_open"
    /\ cb.state = OPEN

\* C9: under both handlers the wrapped function is invoked exactly
\* attempts_made times, with 1 <= attempts_made <= max_retries + 1 (exactly one
\* attempt when max_retries = 0).
C9_AttemptsBound ==
    /\ hr.invocations = rs.attempts
    /\ hr.invocations <= policy.max_retries + 1
    /\ rs.pc = "done"
       => /\ rs.result.attempts_made = hr.invocations
          /\ rs.result.attempts_made >= 1
          /\ rs.result.attempts_made <= policy.max_retries + 1
          /\ policy.max_retries = 0 => rs.result.attempts_made = 1

C9_Witness ==
    /\ rs.pc = "done"
    /\ policy.max_retries = MaxRetries
    /\ rs.handler = "LinearBackoffRetry"
    /\ ~rs.result.success
    /\ hr.invocations = MaxRetries + 1

C11_RetryAfterOverride ==
    (rs.pc = "sleep" /\ rs.last_exception.type = "RateLimitExceeded"
       /\ rs.last_exception.retry_after > 0)
    => rs.delay = Min(rs.last_exception.retry_after, policy.max_delay)

\* C12: under both handlers and whatever retry_on_codes holds, an attempt that
\* fails with an authentication error (401/403) or a 404 ends the execution
\* with success = false: the function is not invoked again.
NeverRetried(e) ==
    \/ e.type = "AuthenticationError"
    \/ e.status \in {401, 403, 404}

C12_AuthAndNotFoundNotRetried ==
    (hr.invocations > hr.returned /\ NeverRetried(rs.last_exception))
    => (rs.pc = "done" /\ ~rs.result.success)

\* The records extract_rate_limits found, in the order it found them, before
\* _filter_valid_limits.
FoundLimits(headers) ==
    extract_basic_limit(headers)
        \o extract_multi_tier_limits(headers, Len(tier_patterns)).limits

FirstOfWindow(found, w) ==
    found[CHOOSE i \in 1..Len(found) :
            /\ found[i].window_seconds = w
            /\ \A j \in 1..(i - 1) : found[j].window_seconds # w]

\* C13: every list returned by extract_rate_limits has, for each record,
\* limit > 0, 0 <= remaining <= limit and window_seconds > 0, holds at most one
\* record per window size, and that record is the first one found for the
\* window.
C13_ReturnedListValid ==
    (ha.pc = "done" /\ ~ha.result.raised)
    => LET limits == ha.result.limits
           found == FoundLimits(ha.headers)
       IN  \A i \in 1..Len(limits) :
             /\ limits[i].limit > 0
             /\ 0 <= limits[i].remaining
             /\ limits[i].remaining <= limits[i].limit
             /\ limits[i].window_seconds > 0
             /\ \A j \in 1..Len(limits) :
                  j # i => limits[j].window_seconds # limits[i].window_seconds
             /\ limits[i] = FirstOfWindow(found, limits[i].window_seconds)

\* A wire remaining of limit + 1 came back as limit, and a second record of
\* the same window was dropped.
C13_Witness ==
    /\ ha.pc = "done"
    /\ ~ha.result.raised
    /\ get(ha.headers, X_RateLimit_Limit) = <<"5">>
    /\ get(ha.headers, X_RateLimit_Remaining) = <<"6">>
    /\ Len(FoundLimits(ha.headers)) > Len(ha.result.limits)
    /\ \E i \in 1..Len(ha.result.limits) :
         /\ ha.result.limits[i].window_seconds = 60
         /\ ha.result.limits[i].limit = 5
         /\ ha.result.limits[i].remaining = 5

\* C14: extract_rate_limits raises for no header set.
C14_NeverRaises ==
    ha.pc = "done" => ~ha.result.raised

\* Length of the run of equal selections that ends the sequence.
RECURSIVE TailRun(_)
TailRun(selections) ==
    IF Len(selections) <= 1 THEN Len(selections)
    ELSE IF selections[Len(selections)] # selections[Len(selections) - 1] THEN 1
    ELSE 1 + TailRun(SubSeq(selections, 1, Len(selections) - 1))

\* C15: with the pattern-avoiding strategy and at least two endpoints offered
\* at every call, no endpoint is returned more than max_consecutive_same times
\* in a row.
C15_NoStutter ==
    (rotator.strategy.type = "PatternAvoidanceRotationStrategy" /\ hrot.offered_two)
    => TailRun(hrot.selections) <= rotator.strategy.max_consecutive_same

\* Position of an endpoint in the configured list, 0-based.
IndexOf(endpoints, ep) == (CHOOSE i \in 1..Len(endpoints) : endpoints[i] = ep) - 1

\* C16: with the sequential strategy, interval N and a fixed list, the
\* selections from the first call on form blocks of exactly N equal
\* selections, each block's endpoint the cyclic successor of the previous
\* block's.
C16_BlocksOfN ==
    (rotator.strategy.type = "SequentialRotationStrategy" /\ hrot.fixed_list)
    => \A k \in 1..Len(hrot.selections) :
         IndexOf(rotator.endpoints, hrot.selections[k])
           = (IndexOf(rotator.endpoints, hrot.selections[1])
                + (k - 1) \div rotator.strategy.rotation_interval_requests)
             % Len(rotator.endpoints)

\* C17: with failure handling on, whatever the strategy, get_next_endpoint
\* returns no endpoint marked unhealthy while some configured endpoint is
\* healthy, and returns a configured endpoint when all are unhealthy.
C17_HealthyOffered ==
    (rotator.handle_failures /\ hrot.last.op = "get_next_endpoint")
    => /\ (hrot.last.any_healthy /\ hrot.last.result \in SeqToSet(rotator.endpoints))
            => hrot.last.result_healthy
       /\ ~hrot.last.any_healthy => hrot.last.result \in SeqToSet(rotator.endpoints)

\* An endpoint was returned while another one was marked unhealthy.
C17_Witness ==
    /\ rotator.handle_failures
    /\ hrot.last.op = "get_next_endpoint"
    /\ hrot.last.any_healthy
    /\ hrot.last.any_unhealthy
    /\ hrot.last.result_healthy

\* C19: test_tier returns limit_found = true, with a RateLimit of the tier's
\* window, exactly when some response was a 429; no request is issued after
\* the first 429.
C19_LimitFoundIff429 ==
    /\ htt.after_429 = 0
    /\ (tt.pc = "done" /\ ~htt.cancelled)
       => /\ htt.saw_429 <=> (~tt.result.raised /\ tt.result.limit_found)
          /\ tt.result.limit_found
               => tt.result.detected_limit[1].window_seconds = tt.tier.window_seconds

\* Permitted rate of a limit not above that of another: ceiling / window.
RateAtMost(a, b) == a.limit * b.window_seconds <= b.limit * a.window_seconds

C28_ResetOnlyWhenClosed ==
    [][\A k \in {CLOSED, HALF_OPEN} :
         FuncReturns(k)
         => /\ cb.state = OPEN => cb'.failure_count = cb.failure_count
            /\ (cb.state = HALF_OPEN /\ cb'.state = HALF_OPEN)
               => cb'.failure_count = cb.failure_count]_vars

\* C29: with jitter off, the delay the exponential handler takes before retry
\* n, no failure so far carrying a Retry-After, is min(max_delay, base_delay *
\* backoff_multiplier^(n-1)); the delays are non-decreasing and never exceed
\* max_delay, and for base 1 s, multiplier 2, cap 10 s and max_retries 3 they
\* are exactly 1 s, 2 s, 4 s with no delay after the fourth attempt.
C29_ExponentialSchedule ==
    (rs.handler = "ExponentialBackoffRetry" /\ ~policy.jitter /\ ~hr.retry_after)
    => /\ \A n \in 1..Len(hr.delays) :
            /\ hr.delays[n] = Min(policy.max_delay,
                                  policy.base_delay * Pow(policy.backoff_multiplier, n - 1))
            /\ hr.delays[n] <= policy.max_delay
            /\ n > 1 => hr.delays[n - 1] <= hr.delays[n]
       /\ Len(hr.delays) <= policy.max_retries
       /\ (policy.max_retries = 3 /\ policy.max_delay = 10000
             /\ rs.pc = "done" /\ rs.attempts = 4)
          => hr.delays = <<1000, 2000, 4000>>

C29_Witness ==
    /\ rs.handler = "ExponentialBackoffRetry"
    /\ ~policy.jitter
    /\ ~hr.retry_after
    /\ policy.max_retries = 3
    /\ policy.max_delay = 10000
    /\ policy.base_delay = 1000
    /\ policy.backoff_multiplier = 2
    /\ rs.pc = "done"
    /\ ~rs.result.success
    /\ rs.result.attempts_made = 4
    /\ hr.delays = <<1000, 2000, 4000>>

\* The record of window w in a returned list, as a set (empty when absent).
RecordsOfWindow(limits, w) ==
    {limits[i] : i \in {j \in 1..Len(limits) : limits[j].window_seconds = w}}

\* C30: for each window suffix the record returned for that window has its
\* ceiling equal to the value of that window's Limit header and its remaining
\* equal to that window's Remaining header clamped to the ceiling (the ceiling
\* itself when the header is absent or unreadable), whichever other windows'
\* headers are present and in whatever order the headers appear.
C30_WindowRecord ==
    (/\ ha.pc = "done"
     /\ ~ha.result.raised
     /\ ~HasKey(ha.headers, X_RateLimit_Limit)
     /\ ~HasKey(ha.headers, X_RateLimit_Remaining))
    => LET minute_limit == int(get(ha.headers, X_Rate_Limit_Limit_Minute))
           minute_remaining == int(get(ha.headers, X_Rate_Limit_Remaining_Minute))
           quarter_limit == int(get(ha.headers, X_Rate_Limit_Limit_15min))
       IN  /\ (HasKey(ha.headers, X_Rate_Limit_Limit_Minute) /\ minute_limit.ok)
              => \E r \in RecordsOfWindow(ha.result.limits, 60) :
                   /\ r.limit = minute_limit.value
                   /\ r.remaining =
                        IF HasKey(ha.headers, X_Rate_Limit_Remaining_Minute)
                           /\ minute_remaining.ok
                        THEN Min(minute_remaining.value, minute_limit.value)
                        ELSE minute_limit.value
           /\ (HasKey(ha.headers, X_Rate_Limit_Limit_15min) /\ quarter_limit.ok)
              => \E r \in RecordsOfWindow(ha.result.limits, 900) :
                   /\ r.limit = quarter_limit.value
                   /\ r.remaining = quarter_limit.value

\* The smallest ceiling among the first n limits.
RECURSIVE min_ceiling(_, _)
min_ceiling(limits, n) ==
    IF n = 1 THEN limits[1].limit
    ELSE Min(limits[n].limit, min_ceiling(limits, n - 1))

\* C22: for every result with at least one limit, recommended_rate >= 1 and
\* recommended_rate <= floor(min_ceiling * (1 - 0.10)), min_ceiling being the
\* smallest ceiling among the limits (the bound is read as 1 where the floor
\* is 0, the two halves of the claim being otherwise incompatible).
C22_RecommendedRateBound ==
    (det.pc = "done" /\ det.all_limits # <<>>)
    => /\ det.recommended_rate >= 1
       /\ det.recommended_rate
            <= Max(1, (9 * min_ceiling(det.all_limits, Len(det.all_limits))) \div 10)

\* C26: a cancellation arriving during a tier test (batch dispatch, pacing
\* delay or Retry-After sleep) ends the test with a TierTestResult whose
\* limit_found is false, not with an error.
C26_CancelledResult ==
    htt.cancelled
    => /\ tt.pc = "done"
       /\ ~tt.result.raised
       /\ ~tt.result.limit_found

\* C21: when the probe discloses per-minute, per-hour and per-day ceilings of
\* 100, 5000 and 100000 and the tier list is empty, the result has the three
\* slots populated, most_restrictive = "hour" and recommended_rate = 4500, and
\* no request is issued beyond the initial probe.
C21_ScenarioOne ==
    (da.pc = "done" /\ da.response_headers = ScenarioHeaders /\ da.tiers = <<>>)
    => /\ ~da.outcome.raised
       /\ da.outcome.result[1].minute_limit # <<>>
       /\ da.outcome.result[1].hour_limit # <<>>
       /\ da.outcome.result[1].day_limit # <<>>
       /\ da.outcome.result[1].most_restrictive = "hour"
       /\ da.outcome.result[1].recommended_rate = 4500
       /\ da.tests_started = 0

\* C23: a network failure of the initial probe ends detect_all_rate_limits
\* with that error; it is not turned into an empty list of header limits
\* with which the detection goes on.
C23_ProbeFailurePropagates ==
    da.probe = "failed"
    => /\ da.pc = "done"
       /\ da.outcome.raised
       /\ da.outcome.exception = "ClientError"
       /\ da.tests_started = 0

\* C27: whenever the probe and the tier tests complete, detect_all_rate_limits
\* returns a MultiTierResult whose confidence lies in [0, 1], and is 1.0 when
\* every limit came from headers.
C27_ConfidenceInRange ==
    (/\ da.pc = "done"
     /\ da.probe = "ok"
     /\ da.outcome.exception # "CancelledError")
    => /\ ~da.outcome.raised
       /\ da.outcome.result[1].confidence_score >= 0
       /\ da.outcome.result[1].confidence_score <= 100
       /\ (\A i \in 1..Len(da.all_limits) : da.all_limits[i].detected_via = "headers")
          => da.outcome.result[1].confidence_score = 100

\* C24: every tier that is started yields exactly one TierTestResult in the
\* aggregate's tier_results; a tier whose test fails yields an entry with
\* limit_found = false and the remaining tiers are tested all the same.
C24_OneResultPerTier ==
    par.pc = "done"
    => /\ Len(par.valid_results) = Len(par.task)
       /\ \A i \in 1..Len(par.task) :
            par.task[i].outcome[1].raised => ~par.valid_results[i].limit_found
       /\ ~par.outcome.raised
       /\ par.outcome.result[1].tier_results = par.valid_results

\* C25: in test_tiers_parallel at most max_concurrent Tier Testers run at any
\* time under every interleaving, and every tier is eventually tested, once,
\* as earlier ones finish.
C25_BoundedAndEventuallyTested ==
    /\ [](Cardinality(Running(par)) <= par.max_concurrent)
    /\ <>(\A i \in 1..Len(par.task) :
            par.task[i].status = "finished" /\ par.task[i].started = 1)

\* More tiers than permits: max_concurrent testers run while a tier waits.
C25_Witness ==
    /\ Cardinality(Running(par)) = par.max_concurrent
    /\ \E i \in 1..Len(par.task) : par.task[i].status = "waiting"
    /\ \E i \in 1..Len(par.task) :
         par.task[i].status = "finished" /\ par.task[i].started = 1

\* C31: when the 429 that ends a tier test carries no rate-limit ceiling
\* header, the recorded RateLimit has limit = (the batch rate at which the 429
\* was observed) - 1 (at least 1, the smallest valid ceiling), remaining = 0,
\* the tier's window and the probed source, for every such rate.
C31_SynthesizedLimit ==
    (tt.pc = "done" /\ htt.bare_429 /\ ~htt.cancelled)
    => /\ ~tt.result.raised
       /\ tt.result.limit_found
       /\ tt.result.detected_limit[1].limit = Max(1, tt.current_rate - 1)
       /\ tt.result.detected_limit[1].remaining = 0
       /\ tt.result.detected_limit[1].window_seconds = tt.tier.window_seconds
       /\ tt.result.detected_limit[1].detected_via = "testing"

\* C32: when the terminating 429 carries a positive Retry-After r, the tier
\* result has backoff_triggered = true and retry_after_seconds = r and the
\* tester sleeps min(r, 10) seconds before returning; when Retry-After is
\* absent the tester does not sleep, backoff_triggered is false, and the limit
\* is still recorded with limit_found = true.
C32_RetryAfterBackoff ==
    (tt.pc = "done" /\ htt.saw_429 /\ ~htt.cancelled)
    => /\ ~tt.result.raised
       /\ tt.result.limit_found
       /\ (tt.retry_after_seconds # <<>> /\ tt.retry_after_seconds[1] > 0)
          => /\ tt.result.backoff_triggered
             /\ tt.result.retry_after_seconds = tt.retry_after_seconds
             /\ tt.slept = <<Min(tt.retry_after_seconds[1], 10)>>
       /\ tt.retry_after_seconds = <<>>
          => /\ ~tt.result.backoff_triggered
             /\ tt.slept = <<>>

\* C33: after a batch without a 429, the next batch rate is current + 2 *
\* increment (and adaptive_increments_used grows by one) exactly when the tier
\* is adaptive and the success ratio of the batch just completed is above
\* 0.95, and current + increment otherwise; earlier batches have no influence.
C33_AdaptiveIncrement ==
    (tt.pc = "while" /\ htt.last_batch # <<>> /\ ~htt.last_batch[1].limited)
    => LET last == htt.last_batch[1]
           doubled == tt.tier.adaptive_increment
                        /\ 100 * last.successful > 95 * last.sent
       IN  /\ tt.current_rate
                = last.rate + (IF doubled THEN 2 ELSE 1) * tt.tier.increment
           /\ tt.adaptive_increments_used = last.used + (IF doubled THEN 1 ELSE 0)

\* C34: when a header-disclosed limit and a probed limit for the same window
\* carry different ceilings, the slot of that window holds the lower of the
\* two ceilings, whichever was obtained first, and a consistency warning is
\* appended.
C34_LowerCeilingKept ==
    det.pc = "assigned"
    => \A i, j \in 1..Len(det.all_limits) :
         (/\ det.all_limits[i].detected_via = "headers"
          /\ det.all_limits[j].detected_via = "testing"
          /\ det.all_limits[i].window_seconds = det.all_limits[j].window_seconds
          /\ det.all_limits[i].window_seconds \in DOMAIN tier_names
          /\ det.all_limits[i].limit # det.all_limits[j].limit)
         => /\ slot(det.result, det.all_limits[i].window_seconds) # <<>>
            /\ slot(det.result, det.all_limits[i].window_seconds)[1].limit
                 <= Min(det.all_limits[i].limit, det.all_limits[j].limit)
            /\ det.consistency_warnings # <<>>

\* C35: with validate_consistency on, the detection returns a result with
\* exactly one warning for each pair of limits adjacent in window order whose
\* shorter-window rate exceeds the longer-window rate by more than 10%, and
\* none for any other pair; for 100 per 10 s and 300 per minute disclosed by
\* the probe that is one warning, most_restrictive = "minute" and
\* recommended_rate = 270.
C35_ConsistencyWarnings ==
    (/\ da.pc = "done"
     /\ da.validate_consistency
     /\ da.probe = "ok"
     /\ da.outcome.exception # "CancelledError")
    => /\ ~da.outcome.raised
       /\ da.outcome.result[1].consistency_warnings # <<>>
       /\ (\A i, j \in 1..Len(da.all_limits) :
             i # j => da.all_limits[i].window_seconds # da.all_limits[j].window_seconds)
          => LET warnings == da.outcome.result[1].consistency_warnings[1]
                 all_limits == SeqToSet(da.all_limits)
                 adjacent(a, b) ==
                     /\ a.window_seconds < b.window_seconds
                     /\ ~\E c \in all_limits :
                           /\ a.window_seconds < c.window_seconds
                           /\ c.window_seconds < b.window_seconds
                 violating == {<<pair[1].window_seconds, pair[2].window_seconds>> :
                                 pair \in {q \in all_limits \X all_limits :
                                     /\ adjacent(q[1], q[2])
                                     /\ 10 * q[1].limit * q[2].window_seconds
                                          > 11 * q[2].limit * q[1].window_seconds}}
             IN  /\ SeqToSet(warnings) = violating
                 /\ Len(warnings) = Cardinality(violating)
       /\ (da.response_headers = ContradictoryHeaders /\ da.tiers = <<>>)
          => /\ da.outcome.result[1].consistency_warnings = <<<<<<10, 60>>>>>>
             /\ da.outcome.result[1].most_restrictive = "minute"
             /\ da.outcome.result[1].recommended_rate = 270

\* C36: the probe request is issued before any tier-test request and the
\* tiers are tested one at a time in the given order; with stop_on_first_limit
\* set no tier is tested after the first one whose result has limit_found,
\* and with the flag unset every tier is tested (a cancelled detection
\* apart).
C36_ProbeThenTiersInOrder ==
    /\ \A k \in 1..Len(da.issued) : da.issued[k] = (<<0>> \o da.tiers)[k]
    /\ Len(da.issued) = IF da.probe = "pending" THEN 0 ELSE 1 + da.tests_started
    /\ da.stop_on_first_limit
       => \A i \in 1..Len(da.tested_limits) :
            da.tested_limits[i].limit_found
            => /\ da.tests_started = i
               /\ da.pc \in {"collect", "done"}
    /\ (/\ ~da.stop_on_first_limit
        /\ da.pc \in {"collect", "done"}
        /\ da.outcome.exception # "CancelledError")
       => da.issued = <<0>> \o da.tiers

\* A detection with stop_on_first_limit set has ended after the second of
\* three tiers, whose test found a limit; the third was never tested.
C36_Witness ==
    /\ da.pc = "done"
    /\ da.stop_on_first_limit
    /\ Len(da.tiers) = 3
    /\ da.issued = <<0, 10, 60>>
    /\ Len(da.tested_limits) = 2
    /\ ~da.tested_limits[1].limit_found
    /\ da.tested_limits[2].limit_found

\* C37: the elapsed time of a tier test never exceeds test_duration_seconds:
\* once time.time() has reached end_time the test issues no further request
\* and starts no further sleep.
C37_NothingPastEndTime ==
    [][tt.expired => /\ Len(tt'.batch) <= Len(tt.batch)
                     /\ (tt'.pc = "backoff" => tt.pc = "backoff")]_vars

\* C38: test_tier terminates for every valid tier when every request returns
\* or times out: the batch rate strictly increases after every batch without
\* a 429, and no batch is ever issued at a rate above max_rate.
C38_Terminates ==
    /\ <>(tt.pc = "done")
    /\ [](tt.pc = "batch" => tt.current_rate <= tt.tier.max_rate)
    /\ [][(tt.pc = "batch" /\ tt'.pc = "while")
            => tt'.current_rate > tt.current_rate]_vars

\* A test that no deadline and no cancellation ended: every batch went
\* without a 429 and the loop was left because the rate had passed max_rate.
C38_Witness ==
    /\ tt.pc = "done"
    /\ ~tt.expired
    /\ ~htt.cancelled
    /\ ~htt.saw_429
    /\ tt.current_rate > tt.tier.max_rate
    /\ tt.requests_sent > tt.tier.max_rate

\* C39: for every rotation strategy and every sequence of request outcomes
\* that changes the health of the endpoints, get_next_endpoint returns a
\* member of the configured endpoint list and never fails.
C39_AlwaysReturnsConfigured ==
    hrot.last.op = "get_next_endpoint"
    => /\ hrot.last.result # IndexError
       /\ hrot.last.result \in SeqToSet(rotator.endpoints)

\* C40: an endpoint marked unhealthy is not excluded forever: when the caller
\* keeps requesting exactly the endpoints get_next_endpoint returns and the
\* endpoint's server has recovered, its health flag returns to healthy (or
\* the server goes down again first).
C40_UnhealthyRecovers ==
    \A endpoint \in SeqToSet(sample_endpoints) :
      (~rotator.endpoint_health[endpoint] /\ endpoint \notin hrot.down)
        ~> (rotator.endpoint_health[endpoint] \/ endpoint \in hrot.down)

====
